---- MODULE Spec2Model ----
(***************************************************************************)
(* A model of the reload core of lightyen/serv:                            *)
(*   - main.go: fingerprint of the watched targets, debounce goroutine,    *)
(*     supervisor select loop (specification Spec, and SpecFP for the      *)
(*     fingerprint as a function of the file contents);                    *)
(*   - zok/log logrotate writer (specifications SpecLog, SpecMill and      *)
(*     SpecScn);                                                           *)
(*   - inotify.go watch tables (SpecWatch) and their use at startup        *)
(*     (SpecStart);                                                        *)
(*   - server.Run and its two listener runners (SpecSrv).                  *)
(* Goroutines interleave freely: no timing assumption is made beyond the   *)
(* order the code itself enforces.                                          *)
(***************************************************************************)
EXTENDS Integers, Sequences, FiniteSets, TLC

VARIABLES
    \* ---- file system and settings (main.go, settings) ----
    files,      \* content of each watched path: a byte sequence, or Absent
    watched,    \* f.watches.targets: the registered targets
    settings,   \* settings.Value(): the snapshot stored by settings.Load
    \* ---- event path (inotify.go Watch, main.go debounce goroutine) ----
    raw,        \* raw events read from the kernel, not yet sent on ch
    ch,         \* number of events buffered in channel ch
    timers,     \* one record per debounce goroutine started
    changed,    \* number of ChangeSignals buffered in channel changed
    \* ---- supervisor (main.go select loop) ----
    hash,       \* the stored fingerprint
    gens,       \* generation contexts, in creation order
    srv,        \* channel srv: generation contexts waiting to be started
    appCause,   \* cause of appCtx ("none" while not cancelled)
    sig,        \* a termination signal is buffered in channel terminate
    pc,         \* position of the supervisor goroutine
    \* ---- history of the run (read by the properties only) ----
    lastCmp,    \* outcome of the last fingerprint comparison
    nWrites,    \* file writes so far
    nMaterial,  \* file writes that changed fingerprinted bytes
    sigSent,    \* a termination signal has been delivered
    burst,      \* every raw event so far arrived while the previous timer slept
    \* ---- fingerprint as a function (SpecFP) ----
    fpPrev,     \* the fingerprint computed before the last one
    fpCur,      \* the last fingerprint computed
    fpAlt,      \* what happened to the files between the two computations
    fpDirty,    \* what happened to the files since the last computation
    \* ---- logrotate writer (SpecLog, SpecMill, SpecScn) ----
    lg,
    \* ---- inotify watch tables (SpecWatch, SpecStart) ----
    wt,
    \* ---- server generations and their listeners (SpecSrv) ----
    sv

supVars == <<files, watched, settings, raw, ch, timers, changed, hash, gens,
             srv, appCause, sig, pc, lastCmp, nWrites, nMaterial, sigSent, burst>>
fpVars  == <<fpPrev, fpCur, fpAlt, fpDirty>>
vars    == <<supVars, fpVars, lg, wt, sv>>

(***************************************************************************)
(* Bounds of the model.                                                    *)
(***************************************************************************)
MaxWrites == 2      \* file writes (one raw event each) in a run of Spec
MaxLen == 1         \* length of a file's content in a run of SpecFP
MaxSizeOpt == 2     \* largest MaxSize option in a run of SpecLog
MaxHeader == 1      \* longest FileHeader in a run of SpecLog
MaxOps == 3         \* Write, Rotate and Close calls in a run of SpecLog
MaxClock == 1       \* clock ticks (backup timestamps) in a run of SpecLog
MaxKeep == 2        \* largest MaxBackups option in a run of SpecMill
MaxAdds == 3        \* AddWatch calls in a run of SpecWatch
MaxRestarts == 1    \* restarts in a run of SpecSrv
MaxEvents == 2      \* file and directory events in a run of SpecLoop

(***************************************************************************)
(* Bytes and file contents.  Whitespace: JSON's insignificant bytes.           *)
(***************************************************************************)
Byte   == 0..3
Whitespace == {0, 3}
Absent == <<-1>>

ConfigPath == "config"
TLSCertificate == "cert"
TLSKey == "key"
Targets == {ConfigPath, TLSCertificate, TLSKey}

\* settings.Default: the snapshot used when the file gives nothing.
DefaultServePort == 80
DefaultServeTLSPort == 443
Default == [ServePort |-> DefaultServePort]

\* json.Unmarshal on the bytes read: whitespace is insignificant; a document
\* is one value byte (the "http" port); anything else is a syntax error and
\* leaves the destination as it was.
StripWS(buf) == SelectSeq(buf, LAMBDA b : b \notin Whitespace)

Unmarshal(buf, config) ==
    LET t == StripWS(buf)
    IN  IF Len(t) = 1 THEN [cfg |-> [config EXCEPT !.ServePort = t[1]], err |-> "nil"]
                      ELSE [cfg |-> config, err |-> "syntax"]

\* settings.readConfigFile: start from Default, overlay the file if it opens.
readConfigFile(fs) ==
    IF fs[ConfigPath] = Absent
    THEN [cfg |-> Default, err |-> "ErrNotExist"]
    ELSE Unmarshal(fs[ConfigPath], Default)

\* json.Marshal of a Settings value: its canonical text.
Marshal(m) == <<m.ServePort>>

\* writeFile: the raw bytes of the file; an open error feeds nothing.
writeFileLenOnly(fs, s) == IF fs[s] = Absent THEN <<>> ELSE <<Len(fs[s])>>

writeFile(fs, s) == IF fs[s] = Absent THEN <<>> ELSE fs[s]

\* What one target feeds into the digest (main.go 97-105, 172-180).
Feed(fs, s) ==
    IF s = ConfigPath THEN Marshal(readConfigFile(fs).cfg) ELSE writeFile(fs, s)

\* f.Watched(): the keys of the targets map, in the order of one range over
\* the map; Go leaves that order unspecified, so every order is possible.
Watched(W) ==
    {o \in [1..Cardinality(W) -> W] : \A i, j \in 1..Cardinality(W) : o[i] = o[j] => i = j}

RECURSIVE Digest(_, _, _)
Digest(fs, order, i) ==
    IF i > Len(order) THEN <<>> ELSE Feed(fs, order[i]) \o Digest(fs, order, i + 1)

\* h.Sum(nil) after feeding every watched target in the given order.  The
\* digest is modelled as the byte stream fed to it (no collisions).
Fingerprint(fs, order) == Digest(fs, order, 1)

(***************************************************************************)
(* Channel capacities (main.go).                                           *)
(***************************************************************************)
ChCap == 1
ChangedCap == 1
SrvCap == 1

(***************************************************************************)
(* Contents the environment may write in a run of Spec.                    *)
(***************************************************************************)
ConfigContents == {<<1>>, <<0, 1>>, <<2>>}
OtherContents  == {<<1>>, <<2>>}
ContentsOf(t) == IF t = ConfigPath THEN ConfigContents ELSE OtherContents

InitFiles == [t \in Targets |-> IF t = TLSKey THEN <<2>> ELSE <<1>>]

\* Values of the variables of the other specifications while one runs.
IdleSup ==
    /\ settings = Default
    /\ raw = 0 /\ ch = 0 /\ timers = <<>> /\ changed = 0
    /\ hash = <<>> /\ gens = <<>> /\ srv = <<>> /\ appCause = "none"
    /\ sig = FALSE /\ pc = "idle" /\ lastCmp = "none" /\ nWrites = 0
    /\ nMaterial = 0 /\ sigSent = FALSE /\ burst = TRUE
IdleFP == fpPrev = <<>> /\ fpCur = <<>> /\ fpAlt = "none" /\ fpDirty = "clean"
IdleLog == lg = [ops |-> 0]
IdleWatch == wt = [ops |-> 0]
IdleSrv == sv = [ops |-> 0]

(***************************************************************************)
(* Spec: main.go from line 70 on.                                          *)
(***************************************************************************)
\* State when the select loop is entered (main.go 55-141): the targets are
\* registered, the first fingerprint is stored, generation 0 waits in srv.
Init ==
    /\ files = InitFiles
    /\ watched \in {{ConfigPath}, Targets}
    /\ settings = readConfigFile(files).cfg
    /\ raw = 0 /\ ch = 0 /\ timers = <<>> /\ changed = 0
    /\ hash \in {Fingerprint(files, o) : o \in Watched(watched)}
    /\ gens = <<[cause |-> "none", run |-> "queued"]>>
    /\ srv = <<1>>
    /\ appCause = "none" /\ sig = FALSE /\ pc = "select"
    /\ lastCmp = "none" /\ nWrites = 0 /\ nMaterial = 0
    /\ sigSent = FALSE /\ burst = TRUE
    /\ IdleFP /\ IdleLog /\ IdleWatch /\ IdleSrv

Alive == pc # "exited"

\* The environment rewrites a watched file; the kernel queues one raw event.
FileWrite(t, c) ==
    /\ nWrites < MaxWrites
    /\ files' = [files EXCEPT ![t] = c]
    /\ raw' = raw + 1
    /\ nWrites' = nWrites + 1
    /\ nMaterial' = IF Feed(files', t) # Feed(files, t) THEN nMaterial + 1 ELSE nMaterial
    /\ UNCHANGED <<watched, settings, ch, timers, changed, hash, gens, srv,
                   appCause, sig, pc, lastCmp, sigSent, burst,
                   fpVars, lg, wt, sv>>

\* inotify.go Watch: a decoded event of a registered target is sent on ch.
WatchEmit ==
    /\ Alive /\ raw > 0 /\ ch < ChCap
    /\ raw' = raw - 1 /\ ch' = ch + 1
    /\ UNCHANGED <<files, watched, settings, timers, changed, hash, gens, srv,
                   appCause, sig, pc, lastCmp, nWrites, nMaterial, sigSent, burst,
                   fpVars, lg, wt, sv>>

\* cancel() of a context: the first cancellation wins.
CancelCtx(t) == IF t.ctx = "live" THEN [t EXCEPT !.ctx = "cancelled"] ELSE t

\* main.go 116-134: one iteration of the debounce loop.
DebounceRecv ==
    /\ Alive /\ ch > 0
    /\ ch' = ch - 1
    /\ LET n == Len(timers)
           old == IF n = 0 THEN timers ELSE [timers EXCEPT ![n] = CancelCtx(timers[n])]
           ctx == IF appCause = "none" THEN "live" ELSE "cancelled"
       IN  /\ timers' = Append(old, [ctx |-> ctx, phase |-> "sleeping"])
           /\ burst' = (burst /\ (n = 0 \/ timers[n].phase = "sleeping"))
    /\ UNCHANGED <<files, watched, settings, raw, changed, hash, gens, srv,
                   appCause, sig, pc, lastCmp, nWrites, nMaterial, sigSent,
                   fpVars, lg, wt, sv>>

\* main.go 122: the context's own deadline (context.WithTimeout) passes.
TimerDeadline(i) ==
    /\ Alive /\ i \in DOMAIN timers
    /\ timers[i].phase = "sleeping" /\ timers[i].ctx = "live"
    /\ timers' = [timers EXCEPT ![i].ctx = "expired"]
    /\ UNCHANGED <<files, watched, settings, raw, ch, changed, hash, gens, srv,
                   appCause, sig, pc, lastCmp, nWrites, nMaterial, sigSent, burst,
                   fpVars, lg, wt, sv>>

\* main.go 126-131: time.Sleep returns and the select reads ctx.Done().
TimerWake(i) ==
    /\ Alive /\ i \in DOMAIN timers
    /\ timers[i].phase = "sleeping"
    /\ timers' = [timers EXCEPT ![i].phase =
                     IF timers[i].ctx = "live" THEN "sending" ELSE "dropped"]
    /\ UNCHANGED <<files, watched, settings, raw, ch, changed, hash, gens, srv,
                   appCause, sig, pc, lastCmp, nWrites, nMaterial, sigSent, burst,
                   fpVars, lg, wt, sv>>

\* main.go 132: changed <- struct{}{} (blocks while the channel is full).
TimerSend(i) ==
    /\ Alive /\ i \in DOMAIN timers
    /\ timers[i].phase = "sending" /\ changed < ChangedCap
    /\ changed' = changed + 1
    /\ timers' = [timers EXCEPT ![i].phase = "sent"]
    /\ UNCHANGED <<files, watched, settings, raw, ch, hash, gens, srv,
                   appCause, sig, pc, lastCmp, nWrites, nMaterial, sigSent, burst,
                   fpVars, lg, wt, sv>>

\* main.go 149-162: the select takes a context from srv and starts its server.
StartGen ==
    /\ pc = "select" /\ srv # <<>>
    /\ gens' = [gens EXCEPT ![Head(srv)].run = "running"]
    /\ srv' = Tail(srv)
    /\ UNCHANGED <<files, watched, settings, raw, ch, timers, changed, hash,
                   appCause, sig, pc, lastCmp, nWrites, nMaterial, sigSent, burst,
                   fpVars, lg, wt, sv>>

\* server.Run returns once its context is cancelled (wg.Done).
GenStop(g) ==
    /\ Alive /\ g \in DOMAIN gens
    /\ gens[g].run = "running" /\ gens[g].cause # "none"
    /\ gens' = [gens EXCEPT ![g].run = "stopped"]
    /\ UNCHANGED <<files, watched, settings, raw, ch, timers, changed, hash, srv,
                   appCause, sig, pc, lastCmp, nWrites, nMaterial, sigSent, burst,
                   fpVars, lg, wt, sv>>

\* main.go 163-187: the select takes a ChangeSignal; settings are reloaded,
\* the fingerprint recomputed and compared with the stored one.
HandleChangedNoCompare ==
    /\ pc = "select" /\ changed > 0
    /\ changed' = changed - 1
    /\ settings' = readConfigFile(files).cfg
    /\ \E o \in Watched(watched) :
         LET b == Fingerprint(files, o)
         IN  /\ lastCmp' = IF b = hash THEN "same" ELSE "diff"
             /\ hash' = b
             /\ pc' = "cancel"
    /\ UNCHANGED <<files, watched, raw, ch, timers, gens, srv, appCause, sig,
                   nWrites, nMaterial, sigSent, burst,
                   fpVars, lg, wt, sv>>

HandleChanged ==
    /\ pc = "select" /\ changed > 0
    /\ changed' = changed - 1
    /\ settings' = readConfigFile(files).cfg
    /\ \E o \in Watched(watched) :
         LET b == Fingerprint(files, o)
         IN  IF b = hash
             THEN /\ lastCmp' = "same"
                  /\ UNCHANGED <<hash, pc>>
             ELSE /\ lastCmp' = "diff"
                  /\ hash' = b
                  /\ pc' = "cancel"
    /\ UNCHANGED <<files, watched, raw, ch, timers, gens, srv, appCause, sig,
                   nWrites, nMaterial, sigSent, burst,
                   fpVars, lg, wt, sv>>

\* context cancel with a cause: a context already cancelled keeps its cause.
CancelGenOverwrite(g, cause) == [g EXCEPT !.cause = cause]

CancelGen(g, cause) == IF g.cause = "none" THEN [g EXCEPT !.cause = cause] ELSE g

\* main.go 189: cancel(ErrConfigChanged) on the current generation.
CancelOldSkipped ==
    /\ pc = "cancel"
    /\ pc' = "create"
    /\ UNCHANGED <<files, watched, settings, raw, ch, timers, changed, hash, gens,
                   srv, appCause, sig, lastCmp, nWrites, nMaterial, sigSent, burst,
                   fpVars, lg, wt, sv>>

CancelOld ==
    /\ pc = "cancel"
    /\ gens' = [gens EXCEPT ![Len(gens)] = CancelGen(gens[Len(gens)], "ConfigChanged")]
    /\ pc' = "create"
    /\ UNCHANGED <<files, watched, settings, raw, ch, timers, changed, hash,
                   srv, appCause, sig, lastCmp, nWrites, nMaterial, sigSent, burst,
                   fpVars, lg, wt, sv>>

\* main.go 190: ctx, cancel = context.WithCancelCause(appCtx).
CreateNew ==
    /\ pc = "create"
    /\ gens' = Append(gens, [cause |-> appCause, run |-> "new"])
    /\ pc' = "send"
    /\ UNCHANGED <<files, watched, settings, raw, ch, timers, changed, hash,
                   srv, appCause, sig, lastCmp, nWrites, nMaterial, sigSent, burst,
                   fpVars, lg, wt, sv>>

\* main.go 191: srv <- ctx.  The send blocks while srv is full, and the
\* supervisor itself is the only receiver of srv.
SendSrv ==
    /\ pc = "send" /\ Len(srv) < SrvCap
    /\ srv' = Append(srv, Len(gens))
    /\ gens' = [gens EXCEPT ![Len(gens)].run = "queued"]
    /\ pc' = "select"
    /\ UNCHANGED <<files, watched, settings, raw, ch, timers, changed, hash,
                   appCause, sig, lastCmp, nWrites, nMaterial, sigSent, burst,
                   fpVars, lg, wt, sv>>

\* A termination signal arrives (signal.Notify on a channel of capacity 1).
Signal ==
    /\ Alive /\ ~sigSent
    /\ sig' = TRUE /\ sigSent' = TRUE
    /\ UNCHANGED <<files, watched, settings, raw, ch, timers, changed, hash, gens,
                   srv, appCause, pc, lastCmp, nWrites, nMaterial, burst,
                   fpVars, lg, wt, sv>>

\* main.go 145-146: appExit(ErrTerminated) cancels appCtx and with it every
\* context derived from it that is not yet cancelled.
HandleTerminate ==
    /\ pc = "select" /\ sig
    /\ sig' = FALSE
    /\ appCause' = "Terminated"
    /\ gens' = [g \in DOMAIN gens |-> CancelGen(gens[g], "Terminated")]
    /\ timers' = [i \in DOMAIN timers |-> CancelCtx(timers[i])]
    /\ pc' = "wait"
    /\ UNCHANGED <<files, watched, settings, raw, ch, changed, hash, srv,
                   lastCmp, nWrites, nMaterial, sigSent, burst,
                   fpVars, lg, wt, sv>>

\* main.go 147-148: wg.Wait() returns when every started server has returned.
WgWait ==
    /\ pc = "wait"
    /\ \A g \in DOMAIN gens : gens[g].run # "running"
    /\ pc' = "exited"
    /\ UNCHANGED <<files, watched, settings, raw, ch, timers, changed, hash, gens,
                   srv, appCause, sig, lastCmp, nWrites, nMaterial, sigSent, burst,
                   fpVars, lg, wt, sv>>

SupervisorStep ==
    \/ StartGen \/ HandleChanged \/ CancelOld \/ CreateNew \/ SendSrv
    \/ HandleTerminate \/ WgWait

Next ==
    \/ \E t \in watched : \E c \in ContentsOf(t) : FileWrite(t, c)
    \/ WatchEmit
    \/ DebounceRecv
    \/ \E i \in DOMAIN timers : TimerDeadline(i)
    \/ \E i \in DOMAIN timers : TimerWake(i)
    \/ \E i \in DOMAIN timers : TimerSend(i)
    \/ \E g \in DOMAIN gens : GenStop(g)
    \/ Signal
    \/ SupervisorStep

Spec == Init /\ [][Next]_vars

(***************************************************************************)
(* Properties of the supervisor (checked under Spec).                      *)
(***************************************************************************)
Live(G) == {g \in DOMAIN G : G[g].cause = "none"}
Finished(T) == \A i \in DOMAIN T : T[i].phase \in {"sent", "dropped"}
Emitted(T) == Cardinality({i \in DOMAIN T : T[i].phase = "sent"})

\* Nothing is in flight between the file system and the supervisor.
Quiet ==
    /\ raw = 0 /\ ch = 0 /\ changed = 0 /\ Finished(timers)
    /\ pc = "select" /\ srv = <<>>

\* C1: a step that takes a ChangeSignal and finds the recomputed fingerprint
\* equal to the stored one cancels no generation, creates no generation
\* context, queues nothing on srv, leaves the stored fingerprint as it was
\* and returns to the select.
C1_NoRestartOnEqual ==
    [][(changed' < changed /\ lastCmp' = "same")
          => (gens' = gens /\ srv' = srv /\ hash' = hash /\ pc' = "select")]_vars

\* C1 witness: after a rewrite, a ChangeSignal was processed with an equal
\* fingerprint and generation 0 is still the only generation.
C1_Witness ==
    /\ lastCmp = "same" /\ nWrites > 0 /\ changed = 0 /\ Emitted(timers) > 0
    /\ Len(gens) = 1 /\ gens[1].cause = "none"

\* C2: once one material change has been fully processed, exactly one restart
\* has occurred (one generation cancelled with ConfigChanged, one created).
C2_ExactlyOneRestart ==
    (nMaterial = 1 /\ Quiet /\ appCause = "none")
        => (Len(gens) = 2 /\ gens[1].cause = "ConfigChanged")

\* C3: at most one generation context is un-cancelled, and when the
\* supervisor is about to create a context none is.
C3_AtMostOneLive ==
    /\ Cardinality(Live(gens)) <= 1
    /\ pc = "create" => Live(gens) = {}

\* C3 witness: a superseded generation is still shutting down while its
\* successor's context exists un-cancelled.
C3_Witness ==
    /\ Len(gens) >= 2
    /\ gens[1].cause = "ConfigChanged" /\ gens[1].run = "running"
    /\ gens[Len(gens)].cause = "none"

\* C4: when a burst of raw events (each arriving while the previous timer
\* still sleeps) has quieted, exactly one ChangeSignal has been emitted.
C4_ExactlyOneSignal ==
    (burst /\ timers # <<>> /\ Finished(timers) /\ raw = 0 /\ ch = 0
           /\ appCause = "none")
        => Emitted(timers) = 1

\* C7: after a termination signal has been delivered the supervisor is never
\* stuck before it has exited: it, or a server it waits for, can step.
Progress == SupervisorStep \/ \E g \in DOMAIN gens : GenStop(g)
C7_TerminationExits ==
    (sigSent /\ pc # "exited") => ENABLED Progress

C34_HandOverNeverBlocks == pc = "send" => Len(srv) < SrvCap

(***************************************************************************)
(* SpecFP: the fingerprint computation (main.go 97-107 and 171-181) as a   *)
(* function of the watched files, applied before and after the files are   *)
(* left alone or have one byte altered.                                    *)
(***************************************************************************)
SeqsUpTo(S, n) == UNION {[1..k -> S] : k \in 0..n}
FPContents(t) ==
    {Absent} \cup (IF t = ConfigPath THEN SeqsUpTo(Byte, MaxLen) ELSE SeqsUpTo(1..2, MaxLen))

InitFP ==
    /\ watched \in {{ConfigPath}, Targets}
    /\ files \in {f \in [Targets -> SeqsUpTo(Byte, MaxLen) \cup {Absent}] :
                     \A t \in Targets : /\ f[t] \in FPContents(t)
                                        /\ t \notin watched => f[t] = Absent}
    /\ fpCur \in {Fingerprint(files, o) : o \in Watched(watched)}
    /\ fpPrev = fpCur /\ fpAlt = "none" /\ fpDirty = "clean"
    /\ IdleSup /\ IdleLog /\ IdleWatch /\ IdleSrv

\* The environment alters one byte of one watched file that exists.
FPAlter(t, i, b) ==
    /\ fpDirty = "clean"
    /\ t \in watched /\ files[t] # Absent
    /\ i \in 1..Len(files[t]) /\ b # files[t][i]
    /\ [files[t] EXCEPT ![i] = b] \in FPContents(t)
    /\ files' = [files EXCEPT ![t][i] = b]
    /\ fpDirty' = t
    /\ UNCHANGED <<watched, settings, raw, ch, timers, changed, hash, gens, srv,
                   appCause, sig, pc, lastCmp, nWrites, nMaterial, sigSent, burst,
                   fpPrev, fpCur, fpAlt, lg, wt, sv>>

\* main.go 171-181: a new digest is fed every target f.Watched() returns.
FPRecompute ==
    /\ \E o \in Watched(watched) : fpCur' = Fingerprint(files, o)
    /\ fpPrev' = fpCur
    /\ fpAlt' = IF fpDirty = "clean" THEN "same" ELSE fpDirty
    /\ fpDirty' = "clean"
    /\ UNCHANGED <<files, watched, settings, raw, ch, timers, changed, hash, gens,
                   srv, appCause, sig, pc, lastCmp, nWrites, nMaterial, sigSent,
                   burst, lg, wt, sv>>

NextFP ==
    \/ \E t \in Targets : \E i \in 1..MaxLen : \E b \in Byte : FPAlter(t, i, b)
    \/ FPRecompute

SpecFP == InitFP /\ [][NextFP]_vars

\* C5: two computations with no byte of any watched target changed in
\* between give equal fingerprints.
C5_Idempotent == fpAlt = "same" => fpCur = fpPrev

InitCat ==
    /\ watched = Targets
    /\ files \in {f \in [Targets -> SeqsUpTo(Byte, MaxLen)] :
                     /\ f[ConfigPath] = <<1>>
                     /\ \A t \in Targets \ {ConfigPath} : f[t] \in SeqsUpTo(1..2, MaxLen)}
    /\ fpCur \in {Fingerprint(files, o) : o \in Watched(watched)}
    /\ fpPrev = fpCur /\ fpAlt = "none" /\ fpDirty = "clean"
    /\ IdleSup /\ IdleLog /\ IdleWatch /\ IdleSrv

\* The environment moves the last byte of file s to the front of file t.
FPMove(s, t) ==
    /\ fpDirty = "clean"
    /\ s # t /\ files[s] # <<>> /\ Len(files[t]) < MaxLen
    /\ files' = [files EXCEPT ![s] = SubSeq(@, 1, Len(@) - 1),
                              ![t] = <<files[s][Len(files[s])]>> \o @]
    /\ fpDirty' = "moved"
    /\ UNCHANGED <<watched, settings, raw, ch, timers, changed, hash, gens, srv,
                   appCause, sig, pc, lastCmp, nWrites, nMaterial, sigSent, burst,
                   fpPrev, fpCur, fpAlt, lg, wt, sv>>

NextCat ==
    \/ \E s, t \in Targets \ {ConfigPath} : FPMove(s, t)
    \/ \E t \in Targets \ {ConfigPath} : \E i \in 1..MaxLen : \E b \in 1..2 : FPAlter(t, i, b)
    \/ FPRecompute

SpecCat == InitCat /\ [][NextCat]_vars

\* C23: two fingerprint computations are equal exactly when no byte of any
\* watched target differs between them.
C23_EqualIffIdentical == fpAlt # "none" => (fpCur = fpPrev <=> fpAlt = "same")

(***************************************************************************)
(* SpecLog: the logrotate writer (zok/log, LogrotateWriter).  The state is *)
(* one record lg:                                                          *)
(*   max, hdr, maxBackups, maxAge, compress   the options                  *)
(*   disk      content of the active file <name>.log, or Absent            *)
(*   backups   the backup files: records [t, z, c] (timestamp, compressed, *)
(*             content), at most one per name (t, z)                       *)
(*   file      the writer holds an open handle (l.file # nil)              *)
(*   size      l.size                                                      *)
(*   now       the clock, in ticks of the backup time format               *)
(*   mills     TryMill goroutines started and not yet run                  *)
(*   milling   mu2 is held by a running cleanup pass                       *)
(*   passes    cleanup passes (calls of mill) running now                  *)
(*   snap      what the running (or the last) cleanup pass listed and      *)
(*             decided: listed, remove, compress, and its clock reading     *)
(*   rot, nrot, last, pre, ops   history: rotations in the last call and   *)
(*             in all calls, the last call, the state before it, number of *)
(*             calls                                                       *)
(* Content bytes: 0 is a header byte, 1 a data byte, 2 the zstd frame mark.*)
(***************************************************************************)
Bytes(n, b) == [i \in 1..n |-> b]
Header(l) == Bytes(l.hdr, 0)

\* zstd.NewWriter / io.Copy: the frame that holds the content, and its inverse.
Zstd(c) == <<2>> \o c
Unzstd(c) == Tail(c)

\* close(): drops the handle.
close(l) == [l EXCEPT !.file = FALSE]

\* backupName(): prefix, the current time in the backup time format, ext.
backupName(l) == [t |-> l.now, z |-> FALSE]

\* The file name of a backup: its timestamp and whether it ends in .zst.
Name(b) == [t |-> b.t, z |-> b.z]

\* os.Rename(l.filename, name): replaces a file already called name.
Rename(l, name) ==
    [l EXCEPT !.backups = {b \in l.backups : ~(b.t = name.t /\ b.z = name.z)}
                              \cup {[t |-> name.t, z |-> name.z, c |-> l.disk]},
              !.disk = Absent]

\* openNew(): an existing active file is renamed to a backup; a fresh file
\* is created, truncated, and given the header.
openNewNoRename(l) == [l EXCEPT !.disk = Header(l), !.file = TRUE, !.size = l.hdr]

openNew(l) ==
    LET r == IF l.disk # Absent THEN Rename(l, backupName(l)) ELSE l
    IN  [r EXCEPT !.disk = Header(l), !.file = TRUE, !.size = l.hdr]

\* rotate(): close, openNew, go TryMill().
rotate(l) ==
    LET n == openNew(close(l))
    IN  [n EXCEPT !.mills = @ + 1, !.rot = @ + 1, !.nrot = @ + 1]

\* openExistingOrNew(writeLen).
openExistingOrNew(l, writeLen) ==
    IF l.disk = Absent THEN openNew(l)
    ELSE IF Len(l.disk) + writeLen >= l.max THEN rotate(l)
    ELSE [l EXCEPT !.file = TRUE, !.size = Len(l.disk)]

\* write(p) with len(p) = n: the writer after the call; err tells whether
\* the call returned an error, ret the byte count it returned.
writeUnchecked(l, n) ==
    LET a == IF ~l.file THEN openExistingOrNew(l, n) ELSE l
        b == IF a.size + n > l.max THEN rotate(a) ELSE a
    IN  [b EXCEPT !.disk = @ \o Bytes(n, 1), !.size = @ + n,
                  !.last = [op |-> "write", n |-> n, err |-> FALSE, ret |-> n]]

write(l, n) ==
    IF n > l.max
    THEN [l EXCEPT !.last = [op |-> "write", n |-> n, err |-> TRUE, ret |-> 0]]
    ELSE LET a == IF ~l.file THEN openExistingOrNew(l, n) ELSE l
             b == IF a.size + n > l.max THEN rotate(a) ELSE a
         IN  [b EXCEPT !.disk = @ \o Bytes(n, 1), !.size = @ + n,
                       !.last = [op |-> "write", n |-> n, err |-> FALSE, ret |-> n]]

\* The size the next Write finds: the tracked size of the open segment, or
\* the size of the file on disk that the first Write will open.
CurrentSize(l) ==
    IF l.file THEN l.size ELSE IF l.disk = Absent THEN 0 ELSE Len(l.disk)

\* oldLogFiles(): the names in the directory that parse as backups of this
\* log, newest first (the order is the order of the timestamps t).
oldLogFiles(l) == {Name(b) : b \in l.backups}

\* mill(), first half (mem.go 342-392): what one pass decides from the
\* listing.  Two names that differ only in .zst count once (preserved map).
Stamps(B) == {b.t : b \in B}
NewestAll(B, m) == Stamps(B)

Newest(B, m) == {t \in Stamps(B) : Cardinality({u \in Stamps(B) : u > t}) < m}

ExpiredNever(f, l) == FALSE

Expired(f, l) == f.t < l.now - l.maxAge

NoPlan == [listed |-> {}, remove |-> {}, compress |-> {}, now |-> 0]

millPlan(l) ==
    IF l.maxBackups = 0 /\ l.maxAge = 0 /\ ~l.compress THEN [NoPlan EXCEPT !.now = l.now]
    ELSE LET listed  == oldLogFiles(l)
             byCount == IF l.maxBackups > 0 /\ l.maxBackups < Cardinality(listed)
                        THEN {f \in listed : f.t \in Newest(listed, l.maxBackups)}
                        ELSE listed
             byAge   == IF l.maxAge > 0
                        THEN {f \in byCount : ~Expired(f, l)}
                        ELSE byCount
         IN  [listed   |-> listed,
              remove   |-> listed \ byAge,
              compress |-> IF l.compress THEN {f \in byAge : ~f.z} ELSE {},
              now      |-> l.now]

\* os.Remove of every name in the remove list.
Remove(B, names) == {b \in B : Name(b) \notin names}

\* compressFile(name): name.zst is created (or truncated) and filled with the
\* compressed content of name, then name is removed.  When name cannot be
\* opened the deferred handler removes name.zst.
compressFileKeepSrc(B, name) ==
    LET dst == [t |-> name.t, z |-> TRUE]
    IN  IF \E b \in B : Name(b) = name
        THEN LET src == CHOOSE b \in B : Name(b) = name
             IN  {b \in B : Name(b) # dst} \cup {[t |-> name.t, z |-> TRUE, c |-> Zstd(src.c)]}
        ELSE {b \in B : Name(b) # dst}

compressFile(B, name) ==
    LET dst == [t |-> name.t, z |-> TRUE]
    IN  IF \E b \in B : Name(b) = name
        THEN LET src == CHOOSE b \in B : Name(b) = name
             IN  {b \in B : Name(b) # dst /\ Name(b) # name}
                     \cup {[t |-> name.t, z |-> TRUE, c |-> Zstd(src.c)]}
        ELSE {b \in B : Name(b) # dst}

RECURSIVE compressAll(_, _)
compressAll(B, names) ==
    IF names = {} THEN B
    ELSE LET f == CHOOSE x \in names : TRUE
         IN  compressAll(compressFile(B, f), names \ {f})

\* mill(), second half (mem.go 394-408): the remove loop, then the compress
\* loop, on the names decided in the first half.  A rotation in between only
\* creates or replaces the backup named after the current tick, so the two
\* loops act as one step on the directory.
mill(l) ==
    [l EXCEPT !.backups = compressAll(Remove(@, l.snap.remove), l.snap.compress)]

Started(l) == [l EXCEPT !.rot = 0, !.ops = @ + 1]

NoCall == [op |-> "none", n |-> 0, err |-> FALSE, ret |-> 0]

InitLog ==
    /\ \E max \in 1..MaxSizeOpt, hdr \in 0..MaxHeader, mb \in 0..1,
          pre \in -1..(MaxSizeOpt + 1) :
         lg = [max |-> max, hdr |-> hdr, maxBackups |-> mb, maxAge |-> 0,
               compress |-> FALSE,
               disk |-> IF pre = -1 THEN Absent ELSE Bytes(pre, 1),
               backups |-> {}, file |-> FALSE, size |-> 0, now |-> 0,
               mills |-> 0, milling |-> FALSE, passes |-> 0, snap |-> NoPlan,
               rot |-> 0, nrot |-> 0, last |-> NoCall,
               pre |-> [size |-> 0, disk |-> Absent, file |-> FALSE],
               ops |-> 0]
    /\ files = InitFiles /\ watched = {ConfigPath}
    /\ IdleSup /\ IdleFP /\ IdleWatch /\ IdleSrv

Before(l) == [size |-> CurrentSize(l), disk |-> l.disk, file |-> l.file]

\* Write(p), len(p) = n.
LogWrite(n) ==
    /\ lg.ops < MaxOps
    /\ lg' = [write(Started(lg), n) EXCEPT !.pre = Before(lg)]
    /\ UNCHANGED <<supVars, fpVars, wt, sv>>

\* Rotate().
LogRotate ==
    /\ lg.ops < MaxOps
    /\ lg' = [rotate(Started(lg)) EXCEPT !.pre = Before(lg),
                 !.last = [op |-> "rotate", n |-> 0, err |-> FALSE, ret |-> 0]]
    /\ UNCHANGED <<supVars, fpVars, wt, sv>>

\* Close().
LogClose ==
    /\ lg.ops < MaxOps
    /\ lg' = [close(Started(lg)) EXCEPT !.pre = Before(lg),
                 !.last = [op |-> "close", n |-> 0, err |-> FALSE, ret |-> 0]]
    /\ UNCHANGED <<supVars, fpVars, wt, sv>>

\* Time passes: the next backup name differs.
LogTick ==
    /\ lg.now < MaxClock
    /\ lg' = [lg EXCEPT !.now = @ + 1]
    /\ UNCHANGED <<supVars, fpVars, wt, sv>>

\* l.mu2.TryLock(): succeeds when no pass holds mu2.
TryLockAlways(l) == TRUE

TryLock(l) == ~l.milling

\* TryMill(): a started goroutine finds mu2 free, takes it, lists the
\* directory and decides what to remove and what to compress ...
MillStart ==
    /\ lg.mills > 0 /\ TryLock(lg)
    /\ lg' = [lg EXCEPT !.mills = @ - 1, !.milling = TRUE, !.passes = @ + 1,
                        !.snap = millPlan(lg)]
    /\ UNCHANGED <<supVars, fpVars, wt, sv>>

\* ... or finds it held and returns at once.
MillBusy ==
    /\ lg.mills > 0 /\ ~TryLock(lg)
    /\ lg' = [lg EXCEPT !.mills = @ - 1]
    /\ UNCHANGED <<supVars, fpVars, wt, sv>>

\* The running pass removes and compresses, then releases mu2.
MillEnd ==
    /\ lg.milling
    /\ lg' = [mill(lg) EXCEPT !.milling = FALSE, !.passes = @ - 1]
    /\ UNCHANGED <<supVars, fpVars, wt, sv>>

NextLog ==
    \/ \E n \in 0..(MaxSizeOpt + 1) : LogWrite(n)
    \/ LogRotate
    \/ LogClose
    \/ LogTick
    \/ MillStart
    \/ MillBusy
    \/ MillEnd

SpecLog == InitLog /\ [][NextLog]_vars

WriteOK == lg.ops > 0 /\ lg.last.op = "write" /\ ~lg.last.err

\* C8: after a Write that returned without error the active segment is no
\* larger than MaxSize.
C8_SizeWithinMax == WriteOK => (Len(lg.disk) <= lg.max /\ lg.size <= lg.max)

\* C9: a Write of N bytes with current size + N <= MaxSize does not rotate.
C9_NoRotationWithinMax ==
    (WriteOK /\ lg.pre.size + lg.last.n <= lg.max) => lg.rot = 0

\* C10: a Write of N <= MaxSize bytes with current size + N > MaxSize rotates
\* exactly once, leaves the old active file as a backup with exactly its
\* previous content, and the new active segment has size N.
C10_RotatesOnceThenSizeN ==
    (WriteOK /\ lg.pre.size + lg.last.n > lg.max)
        => /\ lg.rot = 1
           /\ \E b \in lg.backups : ~b.z /\ b.c = lg.pre.disk
           /\ lg.size = lg.last.n /\ Len(lg.disk) = lg.last.n

\* C11: a Write longer than MaxSize returns an error and 0 bytes, and leaves
\* the active file, the backups, the handle, the tracked size and the
\* pending cleanup requests as they were; it does not rotate.
C11_OversizeWriteRejected ==
    [][(lg'.ops = lg.ops + 1 /\ lg'.last.op = "write" /\ lg'.last.n > lg.max)
          => /\ lg'.last.err /\ lg'.last.ret = 0
             /\ lg'.disk = lg.disk /\ lg'.backups = lg.backups
             /\ lg'.file = lg.file /\ lg'.size = lg.size
             /\ lg'.mills = lg.mills /\ lg'.rot = 0 /\ lg'.nrot = lg.nrot]_vars

\* C11 witness: an oversize Write was rejected while the writer held an open
\* segment with data in it.
C11_Witness ==
    /\ lg.ops > 1 /\ lg.last.op = "write" /\ lg.last.n > lg.max
    /\ lg.last.err /\ lg.last.ret = 0
    /\ lg.file /\ lg.size > 0 /\ lg.pre.file /\ lg.pre.size = lg.size

\* C22: Rotate() rotates whatever the size of the active segment: after the
\* call the writer holds a fresh active segment that contains the header
\* only, with the tracked size equal to the header length; an active file
\* that existed is a backup named after the current time with its content
\* as it was; one more cleanup request is pending.
C22_RotateAlwaysRotates ==
    [][(lg'.ops = lg.ops + 1 /\ lg'.last.op = "rotate")
          => /\ lg'.rot = 1 /\ lg'.nrot = lg.nrot + 1 /\ ~lg'.last.err
             /\ lg'.file /\ lg'.disk = Header(lg) /\ lg'.size = lg.hdr
             /\ lg'.mills = lg.mills + 1
             /\ IF lg.disk = Absent
                THEN lg'.backups = lg.backups
                ELSE \E b \in lg'.backups :
                        /\ b.t = lg.now /\ ~b.z /\ b.c = lg.disk
                        /\ lg'.backups \ {b} \subseteq lg.backups]_vars

\* C22 witness: Rotate() was called on an open segment with data in it that
\* was smaller than MaxSize, and its content is now a backup.
C22_Witness ==
    /\ lg.last.op = "rotate" /\ lg.pre.file
    /\ lg.pre.size > 0 /\ lg.pre.size < lg.max
    /\ lg.file /\ lg.size = lg.hdr /\ lg.disk = Header(lg)
    /\ \E b \in lg.backups : ~b.z /\ b.c = lg.pre.disk /\ b.t = lg.now

\* C35: a Write or Rotate call that rotates leaves every backup that was on
\* disk in place, and when the active file existed it adds one backup per
\* rotation it made.
C35_RotationKeepsBackups ==
    [][(lg'.ops = lg.ops + 1 /\ lg'.rot > 0)
        => /\ lg.backups \subseteq lg'.backups
           /\ lg.disk # Absent
                 => Cardinality(lg'.backups) = Cardinality(lg.backups) + lg'.rot]_vars

\* C36: with MaxBackups = m > 0, in a state where a rotation has happened,
\* no cleanup request is pending and no pass is running (the state the
\* writer stays in when no further call is made), at most m backups are on
\* disk, a backup and its .zst file counting once.
C36_QuiescentWithinMaxBackups ==
    (lg.ops > 0 /\ lg.maxBackups > 0 /\ lg.nrot > 0 /\ lg.mills = 0 /\ ~lg.milling)
        => Cardinality(Stamps(lg.backups)) <= lg.maxBackups

(***************************************************************************)
(* SpecMill: the cleanup pass (TryMill, mill) of a writer whose directory  *)
(* already holds backups, compressed and not, older than the run; Rotate() *)
(* adds backups and requests passes while the clock advances.              *)
(***************************************************************************)
PreStamps == {-2, -1}
PreBackups ==
    {[t |-> t, z |-> z, c |-> IF z THEN Zstd(<<1>>) ELSE <<1>>] :
        t \in PreStamps, z \in BOOLEAN}

InitMill ==
    /\ \E mb \in 0..MaxKeep, age \in 0..1, cz \in BOOLEAN, B \in SUBSET PreBackups :
         lg = [max |-> 1, hdr |-> 0, maxBackups |-> mb, maxAge |-> age,
               compress |-> cz, disk |-> <<1>>,
               backups |-> B, file |-> FALSE, size |-> 0, now |-> 0,
               mills |-> 0, milling |-> FALSE, passes |-> 0, snap |-> NoPlan,
               rot |-> 0, nrot |-> 0, last |-> NoCall,
               pre |-> [size |-> 0, disk |-> Absent, file |-> FALSE],
               ops |-> 0]
    /\ files = InitFiles /\ watched = {ConfigPath}
    /\ IdleSup /\ IdleFP /\ IdleWatch /\ IdleSrv

NextMill ==
    \/ LogRotate
    \/ LogTick
    \/ MillStart
    \/ MillBusy
    \/ MillEnd

SpecMill == InitMill /\ [][NextMill]_vars

\* A step in which a cleanup pass finishes, and the names on disk.
PassEnds == lg.milling /\ ~lg'.milling
Names(B) == {Name(b) : b \in B}
Zst(f) == [t |-> f.t, z |-> TRUE]
Remains(f, B) == f \in Names(B) \/ Zst(f) \in Names(B)

\* The n oldest of the listed names.
Oldest(F, n) == {f \in F : Cardinality({g \in F : g.t < f.t}) < n}
DistinctStamps(F) == \A f, g \in F : f.t = g.t => f = g

\* C12: a pass with MaxBackups = m > 0 that listed k > m backups with
\* distinct timestamps removes the k-m oldest, compressed or not, and every
\* other listed backup remains (unless the age rule of C13 applies to it).
C12_RetentionByCount ==
    [][(PassEnds /\ lg.maxBackups > 0
          /\ Cardinality(lg.snap.listed) > lg.maxBackups
          /\ DistinctStamps(lg.snap.listed))
        => LET F == lg.snap.listed
               old == Oldest(F, Cardinality(F) - lg.maxBackups)
           IN  /\ \A f \in old : f \notin Names(lg'.backups)
               /\ \A f \in F \ old :
                     (lg.maxAge = 0 \/ f.t >= lg.snap.now - lg.maxAge)
                         => Remains(f, lg'.backups)]_vars

\* C12 witness: a finished pass listed more than m backups, some compressed
\* and some not, with no age limit; exactly m backups are on disk and the
\* removed names are gone.
C12_Witness ==
    /\ ~lg.milling /\ lg.maxBackups > 0 /\ lg.maxAge = 0
    /\ Cardinality(lg.snap.listed) > lg.maxBackups
    /\ DistinctStamps(lg.snap.listed)
    /\ \E f, g \in lg.snap.listed : f.z /\ ~g.z
    /\ lg.snap.remove # {} /\ lg.snap.remove \cap Names(lg.backups) = {}
    /\ Cardinality(lg.backups) = lg.maxBackups

\* A listed backup that the count rule keeps.
KeptByCount(f, F, m) ==
    m = 0 \/ Cardinality(F) <= m \/ Cardinality({g.t : g \in {h \in F : h.t > f.t}}) < m

\* C13: a pass with MaxAge = A > 0 removes every listed backup stamped before
\* now - A, whatever MaxBackups is, and a backup stamped after now - A that
\* the count rule keeps remains.
C13_RetentionByAge ==
    [][(PassEnds /\ lg.maxAge > 0)
        => \A f \in lg.snap.listed :
              /\ f.t < lg.snap.now - lg.maxAge => f \notin Names(lg'.backups)
              /\ (f.t > lg.snap.now - lg.maxAge
                    /\ KeptByCount(f, lg.snap.listed, lg.maxBackups))
                  => Remains(f, lg'.backups)]_vars

\* C13 witness: a finished pass removed a backup for its age alone (the count
\* rule kept everything) and left a younger one.
C13_Witness ==
    /\ ~lg.milling /\ lg.maxAge > 0
    /\ (lg.maxBackups = 0 \/ Cardinality(lg.snap.listed) <= lg.maxBackups)
    /\ \E f, g \in lg.snap.listed :
          /\ f.t < lg.snap.now - lg.maxAge /\ f \notin Names(lg.backups)
          /\ g.t > lg.snap.now - lg.maxAge /\ Remains(g, lg.backups)

C21_SingleFlight ==
    [][/\ lg'.passes <= 1
       /\ lg'.passes > lg.passes => lg'.mills = lg.mills - 1
       /\ (lg.milling /\ lg'.mills < lg.mills)
             => /\ lg'.mills = lg.mills - 1
                /\ [lg' EXCEPT !.mills = lg.mills] = lg
       /\ lg'.ops = lg.ops + 1
             => /\ lg'.mills = lg.mills + lg'.rot
                /\ lg'.milling = lg.milling /\ lg'.passes = lg.passes
                /\ lg'.snap = lg.snap]_vars

\* C21 witness: a pass that started before the second rotation (its clock
\* reading is older than a backup on disk) is still running, and the request
\* of the second rotation is gone: it was dropped.
C21_Witness ==
    /\ lg.milling /\ lg.passes = 1 /\ lg.mills = 0 /\ lg.nrot = 2
    /\ \E b \in lg.backups : b.t > lg.snap.now

(***************************************************************************)
(* SpecPass: the cleanup pass when os.Remove and compressFile can fail     *)
(* (mem.go 394-408), interleaved with Write, Rotate and Close within one   *)
(* tick of the clock, and what TryMill hands to OnMillFailed (mem.go       *)
(* 225-237).                                                               *)
(***************************************************************************)
NoFailure == [remove |-> {}, compress |-> {}]

InitPass ==
    /\ \E mb \in 0..MaxKeep, age \in 0..1, cz \in BOOLEAN, B \in SUBSET PreBackups :
         lg = [max |-> 1, hdr |-> 0, maxBackups |-> mb, maxAge |-> age,
               compress |-> cz, disk |-> <<1>>,
               backups |-> B, file |-> FALSE, size |-> 0, now |-> 0,
               mills |-> 0, milling |-> FALSE, passes |-> 0, snap |-> NoPlan,
               rot |-> 0, nrot |-> 0, last |-> NoCall,
               pre |-> [size |-> 0, disk |-> Absent, file |-> FALSE],
               ops |-> 0, failed |-> NoFailure, cb |-> {}]
    /\ files = InitFiles /\ watched = {ConfigPath}
    /\ IdleSup /\ IdleFP /\ IdleWatch /\ IdleSrv

\* compressFile(name) returns an error: the deferred handler removes
\* name.zst and name stays (mem.go 411-464).
compressFileFailed(B, name) == {b \in B : Name(b) # [t |-> name.t, z |-> TRUE]}

\* The compress loop (mem.go 402-407): every name is tried, the ones in fail
\* return an error.
RECURSIVE compressEach(_, _, _)
compressEach(B, names, fail) ==
    IF names = {} THEN B
    ELSE LET f == CHOOSE x \in names : TRUE
         IN  compressEach(IF f \in fail THEN compressFileFailed(B, f)
                                        ELSE compressFile(B, f),
                          names \ {f}, fail)

\* The error mill() returns: the one variable err keeps the first error of
\* the remove loop, and an error of the compress loop only when err is still
\* nil (mem.go 397-399, 404-406).  TryMill passes it to OnMillFailed.
millErr(fr, fc) ==
    IF fr # {} THEN {"remove"} ELSE IF fc # {} THEN {"compress"} ELSE {}

\* A pass that returns at the first error.
millAborting(l, fr, fc) ==
    IF fr # {} \/ fc # {}
    THEN [l EXCEPT !.failed = [remove |-> fr, compress |-> fc], !.cb = millErr(fr, fc)]
    ELSE [l EXCEPT !.backups = compressAll(Remove(@, l.snap.remove), l.snap.compress),
                   !.failed = NoFailure, !.cb = {}]

\* mill(), second half, when os.Remove fails for the names in fr and
\* compressFile for the names in fc: both loops go on after an error.
millFailing(l, fr, fc) ==
    [l EXCEPT !.backups = compressEach(Remove(@, l.snap.remove \ fr),
                                       l.snap.compress, fc),
              !.failed = [remove |-> fr, compress |-> fc],
              !.cb = millErr(fr, fc)]

\* A pass that removes the active file as well.
MillFailActive ==
    /\ lg.milling
    /\ lg' = [mill(lg) EXCEPT !.milling = FALSE, !.passes = @ - 1, !.disk = Absent,
                              !.failed = NoFailure, !.cb = {}]
    /\ UNCHANGED <<supVars, fpVars, wt, sv>>

\* The running pass removes and compresses what it can, reports the error
\* and releases mu2.
MillFail ==
    /\ lg.milling
    /\ \E fr \in SUBSET lg.snap.remove, fc \in SUBSET lg.snap.compress :
         lg' = [millFailing(lg, fr, fc) EXCEPT !.milling = FALSE, !.passes = @ - 1]
    /\ UNCHANGED <<supVars, fpVars, wt, sv>>

NextPass ==
    \/ \E n \in 0..MaxLen : LogWrite(n)
    \/ LogRotate
    \/ LogClose
    \/ MillStart
    \/ MillBusy
    \/ MillFail

SpecPass == InitPass /\ [][NextPass]_vars

WriterOf(l) == [disk |-> l.disk, file |-> l.file, size |-> l.size]

\* C31: a failing removal or compression does not end the pass.  Every name
\* of the remove list whose removal did not fail is gone after the pass,
\* every name of the compress list whose compression did not fail is
\* replaced by its .zst file, and Write, Rotate and Close do after the pass
\* what they would have done before it.
C31_FailureDoesNotAbort ==
    [][(PassEnds /\ (lg'.failed.remove # {} \/ lg'.failed.compress # {}))
        => /\ \A f \in lg.snap.remove \ lg'.failed.remove :
                 f \notin Names(lg'.backups)
           /\ \A f \in lg.snap.compress \ lg'.failed.compress :
                 f \notin Names(lg'.backups) /\ Zst(f) \in Names(lg'.backups)
           /\ \A n \in 0..MaxLen :
                 /\ write(Started(lg'), n).last = write(Started(lg), n).last
                 /\ WriterOf(write(Started(lg'), n)) = WriterOf(write(Started(lg), n))
           /\ WriterOf(rotate(Started(lg'))) = WriterOf(rotate(Started(lg)))
           /\ rotate(Started(lg')).nrot = lg.nrot + 1
           /\ ~close(lg').file]_vars

\* C31 witness: a pass in which one removal failed and another succeeded, or
\* one compression failed and another succeeded, has finished.
C31_Witness ==
    /\ ~lg.milling
    /\ \/ /\ lg.failed.remove # {} /\ lg.snap.remove \ lg.failed.remove # {}
          /\ lg.failed.remove \subseteq Names(lg.backups)
          /\ \A f \in lg.snap.remove \ lg.failed.remove : f \notin Names(lg.backups)
       \/ /\ lg.failed.compress # {} /\ lg.snap.compress \ lg.failed.compress # {}
          /\ lg.failed.compress \subseteq Names(lg.backups)
          /\ \A f \in lg.snap.compress \ lg.failed.compress : Zst(f) \in Names(lg.backups)

\* C32: when a removal and a compression both fail in one pass, what
\* OnMillFailed receives tells of the failed removal and of the failed
\* compression.
C32_BothErrorsReported ==
    [][(PassEnds /\ lg'.failed.remove # {} /\ lg'.failed.compress # {})
        => {"remove", "compress"} \subseteq lg'.cb]_vars

\* C33: the steps of the cleanup (a request that starts a pass, a request
\* that is dropped, the end of a pass) leave the active file, the open
\* handle and the tracked size as they are, whatever Write, Rotate and Close
\* did since the pass listed the directory; the files a pass removes or
\* creates are backups it listed and their .zst files.
C33_PassTouchesBackupsOnly ==
    [][lg'.ops = lg.ops
        => /\ WriterOf(lg') = WriterOf(lg)
           /\ \A b \in (lg.backups \ lg'.backups) \cup (lg'.backups \ lg.backups) :
                 \E f \in lg.snap.listed : Name(b) \in {f, Zst(f)}]_vars

\* C33 witness: a pass that listed backups and changed the directory has
\* finished while the writer holds the active file open with bytes in it,
\* after a rotation that happened during the pass.
C33_Witness ==
    /\ ~lg.milling /\ lg.snap.listed # {} /\ Names(lg.backups) # lg.snap.listed
    /\ lg.file /\ lg.size > 0 /\ lg.size = Len(lg.disk)
    /\ lg.mills > 0

(***************************************************************************)
(* SpecScn: a fresh writer with MaxSize = 100 and MaxBackups = 2 that      *)
(* receives five writes of 40 bytes, with no log file to start from.       *)
(***************************************************************************)
Scenario == [maxSize |-> 100, maxBackups |-> 2, len |-> 40, writes |-> 5]

InitScn ==
    /\ \E cz \in BOOLEAN :
         lg = [max |-> Scenario.maxSize, hdr |-> 0,
               maxBackups |-> Scenario.maxBackups, maxAge |-> 0,
               compress |-> cz, disk |-> Absent,
               backups |-> {}, file |-> FALSE, size |-> 0, now |-> 0,
               mills |-> 0, milling |-> FALSE, passes |-> 0, snap |-> NoPlan,
               rot |-> 0, nrot |-> 0, last |-> NoCall,
               pre |-> [size |-> 0, disk |-> Absent, file |-> FALSE],
               ops |-> 0]
    /\ files = InitFiles /\ watched = {ConfigPath}
    /\ IdleSup /\ IdleFP /\ IdleWatch /\ IdleSrv

\* Write(p), len(p) = 40.
ScnWrite ==
    /\ lg.ops < Scenario.writes
    /\ lg' = [write(Started(lg), Scenario.len) EXCEPT !.pre = Before(lg)]
    /\ UNCHANGED <<supVars, fpVars, wt, sv>>

NextScn ==
    \/ ScnWrite
    \/ LogTick
    \/ MillStart
    \/ MillBusy
    \/ MillEnd

SpecScn == InitScn /\ [][NextScn]_vars

\* All five writes are done and no cleanup pass is pending or running.
ScnDone == lg.ops = Scenario.writes /\ lg.mills = 0 /\ ~lg.milling

\* C15: every write of the scenario succeeds, and once the five writes and
\* the cleanup are done there have been exactly 2 rotations and there are
\* exactly 2 backups.
C15_FiveWritesTwoBackups ==
    /\ lg.last.op = "write" => (~lg.last.err /\ lg.last.ret = Scenario.len)
    /\ ScnDone => (lg.nrot = 2 /\ Cardinality(lg.backups) = 2)

(***************************************************************************)
(* The inotify watch tables (inotify.go).  The state is one record wt:     *)
(*   wdDir, dirWd, targets   the three maps of struct watches              *)
(*   kernel    the kernel's watches of this inotify instance: watched      *)
(*             directory -> watch descriptor                               *)
(*   next      the next watch descriptor the kernel hands out              *)
(*   exist     the directories that exist                                  *)
(*   last, ops   history: the last AddWatch call (its path, its error,     *)
(*             the number of inotify_add_watch calls it made, the tables   *)
(*             before it) and the number of calls                          *)
(*   pc, cfg   position of main's startup, and the paths it reads from     *)
(*             the settings (SpecStart)                                    *)
(* A path is the sequence of its components, relative to the working       *)
(* directory; the empty sequence is the path "" and, once cleaned, ".".    *)
(***************************************************************************)
Put(f, k, v) == [x \in DOMAIN f \cup {k} |-> IF x = k THEN v ELSE f[x]]

\* filepath.Clean: drops empty and "." components.
Clean(p) == SelectSeq(p, LAMBDA c : c # "" /\ c # ".")

\* filepath.Dir of a cleaned path: all but the last component.
Dir(t) == IF Len(t) <= 1 THEN <<>> ELSE SubSeq(t, 1, Len(t) - 1)

\* The kernel resolves a path to the directory it names: "l" is a symbolic
\* link to the directory "a".
Resolve(dir) == IF dir = <<"l">> THEN <<"a">> ELSE dir

\* syscall.InotifyAddWatch(fd, dir, mask): fails when dir does not exist;
\* returns the descriptor the directory already has in this instance, or a
\* new one.
InotifyAddWatch(w, dir) ==
    LET i == Resolve(dir)
    IN  IF i \notin w.exist
        THEN [kernel |-> w.kernel, next |-> w.next, wd |-> -1, err |-> "ENOENT"]
        ELSE IF i \in DOMAIN w.kernel
        THEN [kernel |-> w.kernel, next |-> w.next, wd |-> w.kernel[i], err |-> "nil"]
        ELSE [kernel |-> Put(w.kernel, i, w.next), next |-> w.next + 1,
              wd |-> w.next, err |-> "nil"]

Tables(w) == [wdDir |-> w.wdDir, dirWd |-> w.dirWd, targets |-> w.targets,
              kernel |-> w.kernel]

Called(w, path, err, sys) ==
    [path |-> path, err |-> err, sys |-> sys, before |-> Tables(w)]

\* AddWatch(path, op), under watches.mu.
AddWatchNoDupCheck(w, path) ==
    LET t   == Clean(path)
        dir == Dir(t)
    IN  IF dir \in DOMAIN w.dirWd
        THEN [w EXCEPT !.targets = Put(@, t, w.dirWd[dir]),
                       !.last = Called(w, path, "nil", 0)]
        ELSE LET r == InotifyAddWatch(w, dir)
             IN  IF r.err # "nil"
                 THEN [w EXCEPT !.last = Called(w, path, r.err, 1)]
                 ELSE [w EXCEPT !.kernel = r.kernel, !.next = r.next,
                                !.targets = Put(@, t, r.wd),
                                !.dirWd = Put(@, dir, r.wd),
                                !.wdDir = Put(@, r.wd, dir),
                                !.last = Called(w, path, "nil", 1)]

AddWatchNoShare(w, path) ==
    LET t   == Clean(path)
        dir == Dir(t)
    IN  IF t \in DOMAIN w.targets
        THEN [w EXCEPT !.last = Called(w, path, "ErrWatched", 0)]
        ELSE LET r == InotifyAddWatch(w, dir)
             IN  IF r.err # "nil"
                 THEN [w EXCEPT !.last = Called(w, path, r.err, 1)]
                 ELSE [w EXCEPT !.kernel = r.kernel, !.next = r.next,
                                !.targets = Put(@, t, r.wd),
                                !.dirWd = Put(@, dir, r.wd),
                                !.wdDir = Put(@, r.wd, dir),
                                !.last = Called(w, path, "nil", 1)]

AddWatch(w, path) ==
    LET t   == Clean(path)
        dir == Dir(t)
    IN  IF t \in DOMAIN w.targets
        THEN [w EXCEPT !.last = Called(w, path, "ErrWatched", 0)]
        ELSE IF dir \in DOMAIN w.dirWd
        THEN [w EXCEPT !.targets = Put(@, t, w.dirWd[dir]),
                       !.last = Called(w, path, "nil", 0)]
        ELSE LET r == InotifyAddWatch(w, dir)
             IN  IF r.err # "nil"
                 THEN [w EXCEPT !.last = Called(w, path, r.err, 1)]
                 ELSE [w EXCEPT !.kernel = r.kernel, !.next = r.next,
                                !.targets = Put(@, t, r.wd),
                                !.dirWd = Put(@, dir, r.wd),
                                !.wdDir = Put(@, r.wd, dir),
                                !.last = Called(w, path, "nil", 1)]

\* NewINotify() and Open(): empty tables, no kernel watch.
NewINotify(exist, cfg, at) ==
    [wdDir |-> <<>>, dirWd |-> <<>>, targets |-> <<>>, kernel |-> <<>>,
     next |-> 1, exist |-> exist,
     last |-> [path |-> <<>>, err |-> "nil", sys |-> 0,
               before |-> [wdDir |-> <<>>, dirWd |-> <<>>, targets |-> <<>>,
                           kernel |-> <<>>]],
     ops |-> 0, pc |-> at, cfg |-> cfg]

\* The working directory exists; "a" and "b" may.
Existing == {{<<>>} \cup S : S \in SUBSET {<<"a">>, <<"b">>}}

(***************************************************************************)
(* SpecWatch: a client calls AddWatch with any of a few paths, clean or    *)
(* not, in directories that exist or not, one of them through the link.    *)
(***************************************************************************)
WatchPaths ==
    {<<"a", "x">>, <<"a", ".", "x">>, <<"a", "y">>, <<"b", "x">>, <<"l", "y">>,
     <<"x">>, <<>>}

InitWatch ==
    /\ \E e \in Existing : wt = NewINotify(e, <<>>, "api")
    /\ files = InitFiles /\ watched = {ConfigPath}
    /\ IdleSup /\ IdleFP /\ IdleLog /\ IdleSrv

WatchAdd(p) ==
    /\ wt.ops < MaxAdds
    /\ wt' = [AddWatch(wt, p) EXCEPT !.ops = @ + 1]
    /\ UNCHANGED <<supVars, fpVars, lg, sv>>

NextWatch == \E p \in WatchPaths : WatchAdd(p)

SpecWatch == InitWatch /\ [][NextWatch]_vars

\* C16: an AddWatch whose cleaned path is already a target returns
\* ErrWatched, makes no inotify_add_watch call and leaves the three tables
\* (and the kernel's watches) as they were.
C16_DuplicateRejected ==
    (wt.ops > 0 /\ Clean(wt.last.path) \in DOMAIN wt.last.before.targets)
        => /\ wt.last.err = "ErrWatched" /\ wt.last.sys = 0
           /\ Tables(wt) = wt.last.before

\* C16 witness: a path was registered again in a form that is not clean.
C16_Witness ==
    /\ wt.ops > 1 /\ wt.last.err = "ErrWatched"
    /\ Clean(wt.last.path) # wt.last.path
    /\ Clean(wt.last.path) \in DOMAIN wt.targets

\* C17: the kernel holds one watch per distinct directory that contains a
\* target; an AddWatch of a new path in a directory that is already watched
\* adds the target under the existing descriptor and creates no watch.
C17_OneWatchPerDirectory ==
    /\ Cardinality(DOMAIN wt.kernel)
          = Cardinality({Resolve(Dir(t)) : t \in DOMAIN wt.targets})
    /\ \A t \in DOMAIN wt.targets : wt.kernel[Resolve(Dir(t))] = wt.targets[t]
    /\ LET t   == Clean(wt.last.path)
           dir == Dir(t)
           old == wt.last.before
       IN  (wt.ops > 0 /\ wt.last.err = "nil" /\ Resolve(dir) \in DOMAIN old.kernel)
              => /\ wt.kernel = old.kernel
                 /\ DOMAIN wt.targets = DOMAIN old.targets \cup {t}
                 /\ t \notin DOMAIN old.targets
                 /\ wt.targets[t] = old.kernel[Resolve(dir)]
                 /\ dir \in DOMAIN old.dirWd => wt.last.sys = 0

\* C17 witness: three targets in two directories, two kernel watches, and
\* the last call added a target without calling the kernel.
C17_Witness ==
    /\ Cardinality(DOMAIN wt.targets) = 3 /\ Cardinality(DOMAIN wt.kernel) = 2
    /\ wt.last.err = "nil" /\ wt.last.sys = 0
    /\ Dir(Clean(wt.last.path)) \in DOMAIN wt.last.before.dirWd

(***************************************************************************)
(* SpecStart: main.go 73-95, the registrations made at startup, for every  *)
(* combination of a configuration path and empty or non-empty certificate  *)
(* and key settings, in directories that exist or not.                     *)
(***************************************************************************)
StartExisting == {{<<>>} \cup S : S \in SUBSET {<<"a">>, <<"b">>, <<"c">>}}
StartConfigs == {<<"c", ConfigPath>>, <<ConfigPath>>}
StartCerts == {<<>>, <<"a", TLSCertificate>>, <<"b", TLSCertificate>>}
StartKeys == {<<>>, <<"a", TLSKey>>, <<"b", TLSKey>>}

InitStart ==
    /\ \E e \in StartExisting, c \in StartConfigs, k \in StartCerts, y \in StartKeys :
         wt = NewINotify(e, [config |-> c, cert |-> k, key |-> y], "config")
    /\ files = InitFiles /\ watched = {ConfigPath}
    /\ IdleSup /\ IdleFP /\ IdleLog /\ IdleSrv

\* One AddWatch call of main and the check of its error.
StartAdd(path, then) ==
    LET w == AddWatch(wt, path)
    IN  wt' = [w EXCEPT !.ops = @ + 1,
                        !.pc = IF w.last.err = "nil" THEN then ELSE "exit"]

\* main.go 81-84: f.AddWatch(settings.ConfigPath(), ...).
StartConfig ==
    /\ wt.pc = "config"
    /\ StartAdd(wt.cfg.config, "tls")
    /\ UNCHANGED <<supVars, fpVars, lg, sv>>

\* main.go 86-90: the certificate path is added when either setting is set.
StartCert ==
    /\ wt.pc = "tls"
    /\ wt.cfg.cert # <<>> \/ wt.cfg.key # <<>>
    /\ StartAdd(wt.cfg.cert, "key")
    /\ UNCHANGED <<supVars, fpVars, lg, sv>>

\* main.go 86: neither setting is set.
StartNoTLS ==
    /\ wt.pc = "tls"
    /\ ~(wt.cfg.cert # <<>> \/ wt.cfg.key # <<>>)
    /\ wt' = [wt EXCEPT !.pc = "run"]
    /\ UNCHANGED <<supVars, fpVars, lg, sv>>

\* main.go 91-94: then the key path.
StartKey ==
    /\ wt.pc = "key"
    /\ StartAdd(wt.cfg.key, "run")
    /\ UNCHANGED <<supVars, fpVars, lg, sv>>

NextStart ==
    \/ StartConfig
    \/ StartCert
    \/ StartNoTLS
    \/ StartKey

SpecStart == InitStart /\ [][NextStart]_vars

\* C20: when startup has passed the registrations, the configuration path is
\* a target; the certificate and key paths are targets when both settings
\* are non-empty, and otherwise the configuration path is the only target;
\* with at most one of the two set, startup stops only if the configuration
\* path could not be registered.
BothSet == wt.cfg.cert # <<>> /\ wt.cfg.key # <<>>
C20_StartupTargets ==
    /\ wt.pc = "run"
          => /\ Clean(wt.cfg.config) \in DOMAIN wt.targets
             /\ BothSet => {Clean(wt.cfg.cert), Clean(wt.cfg.key)} \subseteq DOMAIN wt.targets
             /\ ~BothSet => DOMAIN wt.targets = {Clean(wt.cfg.config)}
    /\ (wt.pc = "exit" /\ ~BothSet) => Clean(wt.cfg.config) \notin DOMAIN wt.targets

(***************************************************************************)
(* SpecSrv: the server generations and their listener runners (server.Run, *)
(* serveHTTP, serveHTTPS), driven by the supervisor's restarts.  The state *)
(* is one record sv:                                                       *)
(*   set       settings.Value(): ServePort, and tls: "unset" (TLSCertificate *)
(*             and TLSKey both empty), "nopair" (set, but the files cannot *)
(*             be loaded as a key pair) or "pair"                          *)
(*   gens      the generations in creation order: cause of the context,    *)
(*             run (queued, running, returned), and the two runners rn     *)
(*   queue     channel srv                                                 *)
(*   pc        the supervisor: select, blocked (on srv <- ctx), wait       *)
(*   restarts  restarts so far                                             *)
(* A runner is [st, port, why]: st is its position (new, loop, listen,     *)
(* serving, backoff, returned), port the port of its http.Server while it  *)
(* runs, why the reason it returned.                                       *)
(***************************************************************************)
NoPort == 0
Runners == {"http", "https"}
NewRunner == [st |-> "new", port |-> NoPort, why |-> "none"]
Returned(why) == [st |-> "returned", port |-> NoPort, why |-> why]
NewGen(cause) ==
    [cause |-> cause, run |-> "queued",
     rn |-> [http |-> NewRunner, https |-> NewRunner]]

SrvPorts == {DefaultServePort, 8080}
SrvSettings == [ServePort : SrvPorts, tls : {"unset", "nopair", "pair"}]

\* The first generation waits in srv; the settings are settings.Default (no
\* TLS files configured).
InitSrv ==
    /\ sv = [set |-> [ServePort |-> DefaultServePort, tls |-> "unset"],
             gens |-> <<NewGen("none")>>, queue |-> <<1>>,
             pc |-> "select", restarts |-> 0, ops |-> 0]
    /\ files = InitFiles /\ watched = {ConfigPath}
    /\ IdleSup /\ IdleFP /\ IdleLog /\ IdleWatch

\* main.go 163-191 for a material change: the settings are reloaded, the
\* current context is cancelled with ErrConfigChanged, a new one is created
\* and sent on srv; the send blocks while srv is full.
SrvReload(s) ==
    /\ sv.pc = "select" /\ sv.restarts < MaxRestarts
    /\ s # sv.set
    /\ LET n == Len(sv.gens)
           c == [sv.gens EXCEPT ![n] = CancelGen(sv.gens[n], "ConfigChanged")]
       IN  sv' = [sv EXCEPT !.set = s,
                            !.gens = Append(c, NewGen("none")),
                            !.queue = IF Len(sv.queue) < SrvCap
                                      THEN Append(sv.queue, n + 1) ELSE sv.queue,
                            !.pc = IF Len(sv.queue) < SrvCap THEN "select" ELSE "blocked",
                            !.restarts = @ + 1]
    /\ UNCHANGED <<supVars, fpVars, lg, wt>>

\* main.go 149-153: a context is taken from srv and server.New().Run(ctx)
\* is started; Run starts its two goroutines.
SrvStart ==
    /\ sv.pc = "select" /\ sv.queue # <<>>
    /\ sv' = [sv EXCEPT !.gens[Head(sv.queue)].run = "running",
                        !.queue = Tail(sv.queue)]
    /\ UNCHANGED <<supVars, fpVars, lg, wt>>

\* main.go 145-146: termination cancels every context.
SrvTerminate ==
    /\ sv.pc = "select"
    /\ sv' = [sv EXCEPT !.gens = [g \in DOMAIN sv.gens |-> CancelGen(sv.gens[g], "Terminated")],
                        !.pc = "wait"]
    /\ UNCHANGED <<supVars, fpVars, lg, wt>>

At(g, r, st) == sv.gens[g].run = "running" /\ sv.gens[g].rn[r].st = st
Cancelled(g) == sv.gens[g].cause # "none"

\* A port is taken by a listener of this process.
PortBusy(p) ==
    \E g \in DOMAIN sv.gens, r \in Runners :
        sv.gens[g].rn[r].st = "serving" /\ sv.gens[g].rn[r].port = p

\* serveHTTP 101-109: the http.Server for the current ServePort is built and
\* the goroutine that waits for ctx.Done() is started.
HTTPBegin(g) ==
    /\ At(g, "http", "new")
    /\ sv' = [sv EXCEPT !.gens[g].rn.http.st = "loop",
                        !.gens[g].rn.http.port = sv.set.ServePort]
    /\ UNCHANGED <<supVars, fpVars, lg, wt>>

\* Run 48-61 and serveHTTPS 136-152: with both TLS settings empty the
\* goroutine returns; when the pair cannot be loaded serveHTTPS returns the
\* error and the goroutine returns; otherwise the server is built.
HTTPSBeginServeAnyway(g) ==
    /\ At(g, "https", "new")
    /\ sv' = [sv EXCEPT !.gens[g].rn.https.st = "loop",
                        !.gens[g].rn.https.port = DefaultServeTLSPort,
                        !.gens[g].rn.https.why =
                            IF sv.set.tls = "pair" THEN "none" ELSE sv.set.tls]
    /\ UNCHANGED <<supVars, fpVars, lg, wt>>

HTTPSBegin(g) ==
    /\ At(g, "https", "new")
    /\ sv' = IF sv.set.tls = "unset"
             THEN [sv EXCEPT !.gens[g].rn.https = Returned("unset")]
             ELSE IF sv.set.tls = "nopair"
             THEN [sv EXCEPT !.gens[g].rn.https = Returned("nopair")]
             ELSE [sv EXCEPT !.gens[g].rn.https.st = "loop",
                             !.gens[g].rn.https.port = DefaultServeTLSPort]
    /\ UNCHANGED <<supVars, fpVars, lg, wt>>

\* serveHTTP 112-116: the non-blocking check of ctx.Done() at the top of the
\* loop.
RunnerCheck(g, r) ==
    /\ At(g, r, "loop")
    /\ sv' = IF Cancelled(g)
             THEN [sv EXCEPT !.gens[g].rn[r] = Returned("ctx")]
             ELSE [sv EXCEPT !.gens[g].rn[r].st = "listen"]
    /\ UNCHANGED <<supVars, fpVars, lg, wt>>

\* serve 89-97: net.Listen fails when the port is taken, and the runner logs
\* the error and sleeps (serveHTTP 130-131); otherwise srv.Serve(ln) starts
\* accepting.
RunnerListen(g, r) ==
    /\ At(g, r, "listen")
    /\ sv' = [sv EXCEPT !.gens[g].rn[r].st =
                 IF PortBusy(sv.gens[g].rn[r].port) THEN "backoff" ELSE "serving"]
    /\ UNCHANGED <<supVars, fpVars, lg, wt>>

\* serve 97 when the context was cancelled after the check and Shutdown has
\* already been called: srv.Serve(ln) returns ErrServerClosed at once.
RunnerServeClosed(g, r) ==
    /\ At(g, r, "listen") /\ Cancelled(g)
    /\ ~PortBusy(sv.gens[g].rn[r].port)
    /\ sv' = [sv EXCEPT !.gens[g].rn[r] = Returned("closed")]
    /\ UNCHANGED <<supVars, fpVars, lg, wt>>

\* serve 89-92, serveHTTP 130-131: net.Listen fails for a reason outside this
\* process (the port is held by another process, or may not be bound); the
\* runner logs the error and sleeps.
RunnerBindFail(g, r) ==
    /\ At(g, r, "listen")
    /\ sv' = [sv EXCEPT !.gens[g].rn[r].st = "backoff"]
    /\ UNCHANGED <<supVars, fpVars, lg, wt>>

\* serve 97, serveHTTP 126-131: srv.Serve(ln) returns an error other than
\* ErrServerClosed (Accept failed); the listener is closed (serve 93), the
\* runner logs the error and sleeps.
RunnerServeFail(g, r) ==
    /\ At(g, r, "serving")
    /\ sv' = [sv EXCEPT !.gens[g].rn[r].st = "backoff"]
    /\ UNCHANGED <<supVars, fpVars, lg, wt>>

\* serveHTTP 131: time.Sleep(time.Second) is over.
RunnerBackoffGiveUp(g, r) ==
    /\ At(g, r, "backoff")
    /\ sv' = [sv EXCEPT !.gens[g].rn[r] = Returned("failed")]
    /\ UNCHANGED <<supVars, fpVars, lg, wt>>

RunnerBackoff(g, r) ==
    /\ At(g, r, "backoff")
    /\ sv' = [sv EXCEPT !.gens[g].rn[r].st = "loop"]
    /\ UNCHANGED <<supVars, fpVars, lg, wt>>

\* serveHTTP 106-109: after ctx.Done() the goroutine calls srv.Shutdown: the
\* accepting listener is closed and Serve returns ErrServerClosed.
RunnerShutdownSkipped(g, r) ==
    /\ At(g, r, "serving") /\ Cancelled(g)
    /\ UNCHANGED vars

RunnerShutdown(g, r) ==
    /\ At(g, r, "serving") /\ Cancelled(g)
    /\ sv' = [sv EXCEPT !.gens[g].rn[r] = Returned("closed")]
    /\ UNCHANGED <<supVars, fpVars, lg, wt>>

\* Run 62: wg.Wait() returns when both goroutines have returned; what they
\* returned is dropped with them (Run 46, 53-60).
RunReturn(g) ==
    /\ sv.gens[g].run = "running"
    /\ \A r \in Runners : sv.gens[g].rn[r].st = "returned"
    /\ sv' = [sv EXCEPT !.gens[g].run = "returned",
                        !.gens[g].rn = [r \in Runners |-> Returned("none")]]
    /\ UNCHANGED <<supVars, fpVars, lg, wt>>

NextSrv ==
    \/ \E s \in SrvSettings : SrvReload(s)
    \/ SrvStart
    \/ SrvTerminate
    \/ \E g \in DOMAIN sv.gens : HTTPBegin(g)
    \/ \E g \in DOMAIN sv.gens : HTTPSBegin(g)
    \/ \E g \in DOMAIN sv.gens, r \in Runners : RunnerCheck(g, r)
    \/ \E g \in DOMAIN sv.gens, r \in Runners : RunnerListen(g, r)
    \/ \E g \in DOMAIN sv.gens, r \in Runners : RunnerServeClosed(g, r)
    \/ \E g \in DOMAIN sv.gens, r \in Runners : RunnerBackoff(g, r)
    \/ \E g \in DOMAIN sv.gens, r \in Runners : RunnerShutdown(g, r)
    \/ \E g \in DOMAIN sv.gens : RunReturn(g)

SpecSrv == InitSrv /\ [][NextSrv]_vars

\* A generation has a listener that is accepting.
Accepting(g) == \E r \in Runners : sv.gens[g].rn[r].st = "serving"

\* C18: no listener of a superseded generation and listener of a later
\* generation are accepting at the same time.
C18_NoListenerOverlap ==
    \A g, h \in DOMAIN sv.gens : g < h => ~(Accepting(g) /\ Accepting(h))

\* C19: a generation whose HTTPS runner found no key pair (or no TLS
\* settings) has an HTTPS runner that returned without ever binding a
\* port, and as long as its context is not cancelled its HTTP runner has not
\* returned, its Run has not returned, and the supervisor has not left its
\* loop.
NoPair(g) == sv.gens[g].rn.https.why \in {"unset", "nopair"}
C19_HTTPOnlyWithoutPair ==
    \A g \in DOMAIN sv.gens :
        NoPair(g)
          => /\ sv.gens[g].rn.https.st = "returned"
             /\ sv.gens[g].rn.https.port = NoPort
             /\ ~Cancelled(g)
                  => /\ sv.gens[g].rn.http.st # "returned"
                     /\ sv.gens[g].run = "running"
                     /\ sv.pc # "wait"

\* C19 witness: the pair is configured but cannot be loaded, the HTTPS
\* runner has returned, and the HTTP runner of the same, un-cancelled
\* generation is accepting.
C19_Witness ==
    \E g \in DOMAIN sv.gens :
        /\ sv.gens[g].rn.https.why = "nopair" /\ sv.gens[g].rn.https.st = "returned"
        /\ ~Cancelled(g) /\ sv.gens[g].rn.http.st = "serving"

(***************************************************************************)
(* SpecRun: one Run from its start to its return.  The generation is       *)
(* already running, with any settings; the supervisor reloads or           *)
(* terminates at any moment (the generations it creates meanwhile are not  *)
(* started), and net.Listen and Serve fail at any moment.                  *)
(***************************************************************************)
InitRun ==
    /\ \E s \in SrvSettings :
         sv = [set |-> s,
               gens |-> <<[NewGen("none") EXCEPT !.run = "running"]>>,
               queue |-> <<>>, pc |-> "select", restarts |-> 0, ops |-> 0]
    /\ files = InitFiles /\ watched = {ConfigPath}
    /\ IdleSup /\ IdleFP /\ IdleLog /\ IdleWatch

NextRun ==
    \/ \E s \in SrvSettings : SrvReload(s)
    \/ SrvTerminate
    \/ \E g \in DOMAIN sv.gens : HTTPBegin(g)
    \/ \E g \in DOMAIN sv.gens : HTTPSBegin(g)
    \/ \E g \in DOMAIN sv.gens, r \in Runners : RunnerCheck(g, r)
    \/ \E g \in DOMAIN sv.gens, r \in Runners : RunnerListen(g, r)
    \/ \E g \in DOMAIN sv.gens, r \in Runners : RunnerBindFail(g, r)
    \/ \E g \in DOMAIN sv.gens, r \in Runners : RunnerServeClosed(g, r)
    \/ \E g \in DOMAIN sv.gens, r \in Runners : RunnerServeFail(g, r)
    \/ \E g \in DOMAIN sv.gens, r \in Runners : RunnerBackoff(g, r)
    \/ \E g \in DOMAIN sv.gens, r \in Runners : RunnerShutdown(g, r)
    \/ \E g \in DOMAIN sv.gens : RunReturn(g)

\* Every goroutine that can take a step eventually takes it: the runners, the
\* goroutine that calls Shutdown, the sleep of the backoff, and wg.Wait of
\* Run.  The supervisor and the failures of Listen and Serve are under no such
\* obligation.
Gens == 1..(MaxRestarts + 1)
RunnerStep(g, r) ==
    /\ g \in DOMAIN sv.gens
    /\ \/ (r = "http" /\ HTTPBegin(g))
       \/ (r = "https" /\ HTTPSBegin(g))
       \/ RunnerCheck(g, r) \/ RunnerListen(g, r) \/ RunnerServeClosed(g, r)
       \/ RunnerBackoff(g, r) \/ RunnerShutdown(g, r)
SrvFairness ==
    /\ \A g \in Gens, r \in Runners : WF_vars(RunnerStep(g, r))
    /\ \A g \in Gens : WF_vars(g \in DOMAIN sv.gens /\ RunReturn(g))

SpecRun == InitRun /\ [][NextRun]_vars /\ SrvFairness

\* C25: the HTTP runner returns only when its generation's context has been
\* cancelled; a failed bind or a failed Serve of an un-cancelled generation
\* sends it to the backoff sleep, and from the sleep it goes back to the top
\* of its loop, where an un-cancelled context sends it on to bind again.
HTTPOf(G, g) == G[g].rn.http
C25_HTTPRunnerNeverGivesUp ==
    [][\A g \in DOMAIN sv.gens :
          LET a == HTTPOf(sv.gens, g)
              b == HTTPOf(sv'.gens, g)
              live == sv.gens[g].cause = "none"
          IN  /\ (a.st # "returned" /\ b.st = "returned") => ~live
              /\ (live /\ a.st \in {"listen", "serving"} /\ b.st # a.st)
                    => b.st \in {"serving", "backoff"}
              /\ (a.st = "backoff" /\ b.st # a.st) => b.st = "loop"
              /\ (live /\ a.st = "loop" /\ b.st # a.st) => b.st = "listen"]_vars

\* C25 witness: the HTTP runner of an un-cancelled generation sleeps in the
\* backoff after a failure while its HTTPS runner is accepting.
C25_Witness ==
    \E g \in DOMAIN sv.gens :
        /\ sv.gens[g].cause = "none" /\ sv.gens[g].run = "running"
        /\ sv.gens[g].rn.http.st = "backoff"
        /\ sv.gens[g].rn.https.st = "serving"

\* C26: once a running generation's context is cancelled, both its runners
\* eventually have returned (none is accepting, binding or sleeping any
\* more) and its Run has returned.
C26_RunnersStopAfterCancel ==
    \A g \in Gens :
        (g \in DOMAIN sv.gens /\ sv.gens[g].cause # "none"
            /\ sv.gens[g].run = "running")
          ~> (/\ g \in DOMAIN sv.gens
              /\ \A r \in Runners : sv.gens[g].rn[r].st = "returned"
              /\ sv.gens[g].run = "returned")

\* C26 witness: the Run of a generation cancelled by a material change has
\* returned with both runners stopped, and the supervisor is still in its
\* loop.
C26_Witness ==
    \E g \in DOMAIN sv.gens :
        /\ sv.gens[g].cause = "ConfigChanged" /\ sv.gens[g].run = "returned"
        /\ \A r \in Runners : sv.gens[g].rn[r].st = "returned"
        /\ g < Len(sv.gens) /\ sv.pc = "select"

(***************************************************************************)
(* SpecLoop: the Watch loop (inotify.go 266-331) next to clients that call *)
(* AddWatch and Close, and a kernel that queues records.  The record wt    *)
(* has, besides the tables:                                                *)
(*   queue     records the kernel has queued on the inotify descriptor     *)
(*   buf       records of the last Read not yet decoded                    *)
(*   lp        position of the loop: read, next, self (line 317), lookup   *)
(*             (line 321), send (line 325), done (returned), fatal (the    *)
(*             runtime aborted the process)                                *)
(*   ev        the event being decoded                                     *)
(*   out       the events sent on the channel, in order                    *)
(*   mu        watches.mu: free, or the writer that holds it (add, close)  *)
(*   pend      the path of the AddWatch call that holds mu                 *)
(*   closed    Close has returned                                          *)
(*   nev       events so far                                               *)
(* A record is [wd, mask, name]; name is a sequence of zero or one         *)
(* component.                                                              *)
(***************************************************************************)
NoEvent == [wd |-> 0, mask |-> "none", name |-> <<>>, path |-> <<>>]
LoopPaths == {<<"a", "x">>, <<"b", "x">>, <<"l", "y">>}
EventNames == {"x", "y"}

InitLoop ==
    /\ wt = [wdDir |-> <<>>, dirWd |-> <<>>, targets |-> <<>>, kernel |-> <<>>,
             next |-> 1, exist |-> {<<>>, <<"a">>, <<"b">>},
             last |-> [path |-> <<>>, err |-> "nil", sys |-> 0,
                       before |-> [wdDir |-> <<>>, dirWd |-> <<>>,
                                   targets |-> <<>>, kernel |-> <<>>]],
             ops |-> 0, pc |-> "api", cfg |-> <<>>,
             queue |-> <<>>, buf |-> <<>>, lp |-> "read", ev |-> NoEvent,
             out |-> <<>>, mu |-> "free", pend |-> <<>>, closed |-> FALSE,
             nev |-> 0]
    /\ files = InitFiles /\ watched = {ConfigPath}
    /\ IdleSup /\ IdleFP /\ IdleLog /\ IdleSrv

Running == wt.lp # "fatal"

\* AddWatch 239: watches.mu.Lock() ...
AddBegin(p) ==
    /\ Running /\ ~wt.closed /\ wt.mu = "free" /\ wt.ops < MaxAdds
    /\ wt' = [wt EXCEPT !.mu = "add", !.pend = p, !.ops = @ + 1]
    /\ UNCHANGED <<supVars, fpVars, lg, sv>>

\* ... AddWatch 242-264, and the deferred Unlock.
AddEnd ==
    /\ Running /\ wt.mu = "add"
    /\ wt' = [AddWatch(wt, wt.pend) EXCEPT !.mu = "free", !.pend = <<>>]
    /\ UNCHANGED <<supVars, fpVars, lg, sv>>

\* Close 223: watches.mu.Lock() ...
CloseBegin ==
    /\ Running /\ ~wt.closed /\ wt.mu = "free"
    /\ wt' = [wt EXCEPT !.mu = "close"]
    /\ UNCHANGED <<supVars, fpVars, lg, sv>>

\* The kernel's watches without those of the given descriptors.
Unwatch(k, wds) ==
    LET keep == {i \in DOMAIN k : k[i] \notin wds}
    IN  [i \in keep |-> k[i]]

\* ... Close 225-231: InotifyRmWatch for every handle of wdDir, the three
\* maps cleared, the file closed (what the kernel had queued goes with it),
\* and the deferred Unlock.
CloseEnd ==
    /\ Running /\ wt.mu = "close"
    /\ wt' = [wt EXCEPT !.kernel = Unwatch(@, DOMAIN wt.wdDir),
                        !.wdDir = <<>>, !.dirWd = <<>>, !.targets = <<>>,
                        !.queue = <<>>, !.closed = TRUE, !.mu = "free"]
    /\ UNCHANGED <<supVars, fpVars, lg, sv>>

\* The kernel: a file named n in a watched directory is written and closed.
FileEvent(i, n) ==
    /\ Running /\ ~wt.closed /\ wt.nev < MaxEvents
    /\ i \in DOMAIN wt.kernel
    /\ wt' = [wt EXCEPT !.queue = Append(@, [wd |-> wt.kernel[i],
                                             mask |-> "IN_CLOSE_WRITE",
                                             name |-> <<n>>]),
                        !.nev = @ + 1]
    /\ UNCHANGED <<supVars, fpVars, lg, sv>>

\* The kernel: a watched directory is deleted; its watch goes with it, and
\* IN_DELETE_SELF is followed by IN_IGNORED.
DirDeleted(i) ==
    /\ Running /\ ~wt.closed /\ wt.nev < MaxEvents
    /\ i \in DOMAIN wt.kernel /\ i # <<>>
    /\ wt' = [wt EXCEPT !.queue = @ \o <<[wd |-> wt.kernel[i],
                                          mask |-> "IN_DELETE_SELF",
                                          name |-> <<>>],
                                         [wd |-> wt.kernel[i],
                                          mask |-> "IN_IGNORED",
                                          name |-> <<>>]>>,
                        !.kernel = Unwatch(@, {wt.kernel[i]}),
                        !.exist = @ \ {i},
                        !.nev = @ + 1]
    /\ UNCHANGED <<supVars, fpVars, lg, sv>>

\* The kernel: a watched directory is moved away; the watch stays with it.
DirMoved(i) ==
    /\ Running /\ ~wt.closed /\ wt.nev < MaxEvents
    /\ i \in DOMAIN wt.kernel /\ i # <<>> /\ i \in wt.exist
    /\ wt' = [wt EXCEPT !.queue = Append(@, [wd |-> wt.kernel[i],
                                             mask |-> "IN_MOVE_SELF",
                                             name |-> <<>>]),
                        !.exist = @ \ {i},
                        !.nev = @ + 1]
    /\ UNCHANGED <<supVars, fpVars, lg, sv>>

\* Watch 269-282: Read returns what is queued, or fails on the closed file
\* and the loop returns the error.
LoopRead ==
    /\ wt.lp = "read"
    /\ \/ /\ wt.closed
          /\ wt' = [wt EXCEPT !.lp = "done"]
       \/ /\ ~wt.closed /\ wt.queue # <<>>
          /\ wt' = [wt EXCEPT !.buf = wt.queue, !.queue = <<>>, !.lp = "next"]
    /\ UNCHANGED <<supVars, fpVars, lg, sv>>

\* getDir (168-172): wdDir[wd] under the read lock; "" when wd is unknown.
getDir(w, wd) == IF wd \in DOMAIN w.wdDir THEN w.wdDir[wd] ELSE <<>>

\* Watch 290-315: the next record of the buffer is decoded; an IN_IGNORED
\* record is skipped.
LoopNext ==
    /\ wt.lp = "next"
    /\ IF wt.buf = <<>>
       THEN wt' = [wt EXCEPT !.lp = "read"]
       ELSE LET e == Head(wt.buf)
            IN  IF e.mask = "IN_IGNORED"
                THEN wt' = [wt EXCEPT !.buf = Tail(@)]
                ELSE /\ wt.mu = "free"
                     /\ wt' = [wt EXCEPT !.buf = Tail(@), !.lp = "self",
                                  !.ev = [wd |-> e.wd, mask |-> e.mask,
                                          name |-> e.name,
                                          path |-> getDir(wt, e.wd)]]
    /\ UNCHANGED <<supVars, fpVars, lg, sv>>

\* deleteSelf (174-191), under the write lock.
DropTargets(f, wd) ==
    LET keep == {t \in DOMAIN f : f[t] # wd}
    IN  [t \in keep |-> f[t]]
Without(f, k) == [x \in DOMAIN f \ {k} |-> f[x]]

deleteSelf(w, e) ==
    IF e.wd \notin DOMAIN w.wdDir THEN w
    ELSE [w EXCEPT !.wdDir = Without(@, e.wd),
                   !.dirWd = Without(@, w.wdDir[e.wd]),
                   !.targets = DropTargets(@, e.wd)]

\* Watch 317-319: deleteSelf is called for IN_DELETE_SELF only.
LoopSelf ==
    /\ wt.lp = "self"
    /\ IF wt.ev.mask = "IN_DELETE_SELF"
       THEN /\ wt.mu = "free"
            /\ wt' = [deleteSelf(wt, wt.ev) EXCEPT !.lp = "lookup"]
       ELSE wt' = [wt EXCEPT !.lp = "lookup"]
    /\ UNCHANGED <<supVars, fpVars, lg, sv>>

\* filepath.Clean(filepath.Join(event.Path, event.Name)).
Join(path, name) == path \o name
TargetOf(e) == Clean(Join(e.path, e.name))

\* Watch 321-326: the lookup in targets, made without the lock.  When a
\* writer is inside its critical section the read races with the write: the
\* runtime may abort the process, and otherwise the result is any.
LoopLookup ==
    /\ wt.lp = "lookup"
    /\ IF wt.mu = "free"
       THEN wt' = [wt EXCEPT !.lp = IF TargetOf(wt.ev) \in DOMAIN wt.targets
                                     THEN "send" ELSE "next"]
       ELSE \E o \in {"send", "next", "fatal"} : wt' = [wt EXCEPT !.lp = o]
    /\ UNCHANGED <<supVars, fpVars, lg, sv>>

\* Watch 325: ch <- event.
LoopSend ==
    /\ wt.lp = "send"
    /\ wt' = [wt EXCEPT !.out = Append(@, wt.ev), !.lp = "next"]
    /\ UNCHANGED <<supVars, fpVars, lg, sv>>

NextLoop ==
    \/ \E p \in LoopPaths : AddBegin(p)
    \/ AddEnd
    \/ CloseBegin
    \/ CloseEnd
    \/ \E i \in DOMAIN wt.kernel, n \in EventNames : FileEvent(i, n)
    \/ \E i \in DOMAIN wt.kernel : DirDeleted(i)
    \/ \E i \in DOMAIN wt.kernel : DirMoved(i)
    \/ LoopRead
    \/ LoopNext
    \/ LoopSelf
    \/ LoopLookup
    \/ LoopSend

SpecLoop == InitLoop /\ [][NextLoop]_vars

\* C27: the loop goes on to send the decoded event exactly when the joined
\* path is a key of targets at the lookup; what is sent is that event, once,
\* after the events sent before it; no IN_IGNORED record is ever sent.
C27_EmitOnlyRegistered ==
    [][/\ (wt.lp = "lookup" /\ wt'.lp # "lookup")
            => /\ wt'.lp \in {"send", "next"}
               /\ wt'.lp = "send" <=> TargetOf(wt.ev) \in DOMAIN wt.targets
       /\ wt'.out # wt.out
            => (wt.lp = "send" /\ wt'.out = Append(wt.out, wt.ev)
                  /\ wt.ev.mask # "IN_IGNORED")
       /\ (wt.lp = "send" /\ wt'.lp # "send") => wt'.out = Append(wt.out, wt.ev)]_vars

\* C28: when the loop has handled the record that tells that a watched
\* directory was deleted or moved, no entry of wdDir or dirWd and no target
\* refers to its handle any more, and every other target is as it was.
SelfGone == {"IN_DELETE_SELF", "IN_MOVE_SELF"}
C28_DirectoryGone ==
    [][(wt.lp = "self" /\ wt'.lp = "lookup" /\ wt.ev.mask \in SelfGone
          /\ wt.ev.wd \in DOMAIN wt.wdDir)
        => /\ wt.ev.wd \notin DOMAIN wt'.wdDir
           /\ \A d \in DOMAIN wt'.dirWd : wt'.dirWd[d] # wt.ev.wd
           /\ \A t \in DOMAIN wt'.targets : wt'.targets[t] # wt.ev.wd
           /\ \A t \in DOMAIN wt.targets :
                 wt.targets[t] # wt.ev.wd
                   => (t \in DOMAIN wt'.targets /\ wt'.targets[t] = wt.targets[t])]_vars

\* C29: once Close has returned the three tables are empty and the kernel
\* holds no watch of this instance, a loop that has returned did so on the
\* closed file, and no event is sent any more.
C29_AfterClose ==
    [][/\ wt'.closed
            => (wt'.wdDir = <<>> /\ wt'.dirWd = <<>> /\ wt'.targets = <<>>
                  /\ wt'.kernel = <<>>)
       /\ wt'.lp = "done" => wt'.closed
       /\ wt.closed => wt'.out = wt.out]_vars

\* C30: the loop reads targets only while no writer of the tables is inside
\* its critical section.
C30_LookupUnderLock ==
    [][(wt.lp = "lookup" /\ wt'.lp # "lookup") => wt.mu = "free"]_vars


\* C37: whenever no AddWatch or Close is in progress (so after every
\* AddWatch, every handled directory removal and Close), wdDir and dirWd are
\* inverse bijections, and every target maps to a handle of wdDir whose
\* directory is the directory that contains the target.
C37_TablesConsistent ==
    wt.mu = "free"
        => /\ \A wd \in DOMAIN wt.wdDir :
                 wt.wdDir[wd] \in DOMAIN wt.dirWd /\ wt.dirWd[wt.wdDir[wd]] = wd
           /\ \A d \in DOMAIN wt.dirWd :
                 wt.dirWd[d] \in DOMAIN wt.wdDir /\ wt.wdDir[wt.dirWd[d]] = d
           /\ \A t \in DOMAIN wt.targets :
                 /\ wt.targets[t] \in DOMAIN wt.wdDir
                 /\ wt.wdDir[wt.targets[t]] = Dir(t)

(***************************************************************************)
(* SpecReload: main after its startup registrations (main.go 109-195) as   *)
(* far as the watch tables are concerned: reloads that bring other         *)
(* certificate and key paths, watched directories that are deleted (and    *)
(* created again), and the watch loop's reaction to the deletion.          *)
(***************************************************************************)
\* A changed branch that registers the certificate path it has loaded.
ReloadRewatch(k, y) ==
    /\ wt.pc = "run"
    /\ wt' = [AddWatch([wt EXCEPT !.cfg.cert = k, !.cfg.key = y], k) EXCEPT !.pc = "run"]
    /\ UNCHANGED <<supVars, fpVars, lg, sv>>

\* main.go 163-191: the changed branch loads the settings, which may name
\* other certificate and key paths, reads the watched files and restarts the
\* generation; it makes no call of AddWatch.
Reload(k, y) ==
    /\ wt.pc = "run"
    /\ wt' = [wt EXCEPT !.cfg.cert = k, !.cfg.key = y]
    /\ UNCHANGED <<supVars, fpVars, lg, sv>>

\* A watched directory is deleted and the watch loop handles its
\* IN_DELETE_SELF record (inotify.go 317-319).
ReloadDirDeleted(i) ==
    /\ wt.pc = "run"
    /\ i \in DOMAIN wt.kernel /\ i # <<>>
    /\ wt' = [deleteSelf(wt, [wd |-> wt.kernel[i]])
                 EXCEPT !.kernel = Unwatch(@, {wt.kernel[i]}), !.exist = @ \ {i}]
    /\ UNCHANGED <<supVars, fpVars, lg, sv>>

\* A directory that does not exist is created.
ReloadDirCreated(i) ==
    /\ wt.pc = "run"
    /\ i \notin wt.exist
    /\ wt' = [wt EXCEPT !.exist = @ \cup {i}]
    /\ UNCHANGED <<supVars, fpVars, lg, sv>>

NextReload ==
    \/ StartConfig
    \/ StartCert
    \/ StartNoTLS
    \/ StartKey
    \/ \E k \in StartCerts, y \in StartKeys : Reload(k, y)
    \/ \E i \in {<<"a">>, <<"b">>, <<"c">>} : ReloadDirDeleted(i)
    \/ \E i \in {<<"a">>, <<"b">>, <<"c">>} : ReloadDirCreated(i)

SpecReload == InitStart /\ [][NextReload]_vars

\* C38: once startup has made its registrations, no step adds a target: the
\* set of targets after a step is a subset of the set before it, so a path
\* that a reload brings is not a target unless it was one, and a target
\* dropped with its directory does not come back.
C38_TargetsOnlyShrink ==
    [][wt.pc = "run" => DOMAIN wt'.targets \subseteq DOMAIN wt.targets]_vars

\* C38 witness: after a reload the settings name a certificate in an
\* existing directory that is not a target, and the configuration path,
\* dropped when its directory was deleted, is not a target although the
\* directory exists again.
C38_Witness ==
    /\ wt.pc = "run"
    /\ wt.cfg.cert # <<>> /\ Dir(wt.cfg.cert) \in wt.exist
    /\ Clean(wt.cfg.cert) \notin DOMAIN wt.targets
    /\ wt.cfg.key # <<>> /\ Clean(wt.cfg.key) \in DOMAIN wt.targets
    /\ Dir(wt.cfg.config) # <<>> /\ Dir(wt.cfg.config) \in wt.exist
    /\ Clean(wt.cfg.config) \notin DOMAIN wt.targets
====
